---- MODULE Spec2Model ----
(***************************************************************************)
(* A model of scrape_otto.py: the query parser, the candidate scorer, the *)
(* multi-pass matcher and the batch loop of the Otto product scraper.     *)
(*                                                                         *)
(* Texts are TLA+ strings, read character by character (Len, SubSeq, \o), *)
(* so that normalisation, substring tests, word-boundary searches and     *)
(* token windows are computed the way the Python code computes them.      *)
(***************************************************************************)
EXTENDS Integers, Sequences, FiniteSets, TLC

VARIABLES
    mode,           \* which part of the program this behaviour exercises
    nIn,            \* _normalize: the input text
    nOut,           \* _normalize(nIn)
    nOut2,          \* _normalize(_normalize(nIn))
    sQuery,         \* scorer: the raw query string
    sText,          \* scorer: card.inner_text() of the card under evaluation
    sTitle,         \* scorer: the card's title (_extract_title)
    sResult,        \* scorer: _evaluate_card's result for (sText, sTitle)
    sPrev,          \* scorer: the result before the last token insertion
    sIns,           \* scorer: the token the last step inserted ("" if none)
    sFrags,         \* scorer: the number of fragments the card's text was built from
    pQuery,         \* query parser: the raw query string
    pShape,         \* query parser: the parts pQuery was written from
    pInfo,          \* query parser: QueryInfo.from_query(pQuery), once parsed
    queries,        \* Scraper.run: the input queries
    qi,             \* Scraper.run: index of the query in progress (1-based)
    pc,             \* position in Scraper.run / scrape / find_product
    mstate,         \* the matcher's state for the query in progress
    all_scored,     \* _find_with_passes: the pool of scored candidates
    scroll_attempt, \* _find_with_passes: the loop variable of range(10)
    requests,       \* number of _get_cards calls made for the query in progress
    best,           \* the candidate handed to _click_candidate, or None
    tier,           \* the tier that selected best
    evaluation,     \* _evaluate_card's result for each query and card of the batch
    click,          \* the outcome of _click_candidate: "", "ok" or "failed"
    found,          \* find_product's return value for the query in progress
    results,        \* Scraper.run: the rows recorded so far
    dQuery,         \* field extraction: scrape's query
    dPage,          \* field extraction: what the product page yields
    dDoc,           \* field extraction: what the PDF's sources deliver
    dStep,          \* field extraction: position in scrape / extract_fields
    dEnergy,        \* extract_fields: energy after the page-text scan
    dSupplier,      \* extract_fields: supplier after the page-text scan
    dOcr,           \* extract_fields: whether _ocr_pages was called
    dFields,        \* extract_fields: the returned pair, once returned
    dProduct,       \* scrape: the ProductData returned (or the failed row)
    popText,        \* popup parser: the text captured from the safety panel
    popResult       \* popup parser: _parse_supplier_popup(popText)

vars == <<mode, nIn, nOut, nOut2, sQuery, sText, sTitle, sResult, sPrev, sIns,
          sFrags,
          pQuery, pShape, pInfo, queries, evaluation, qi, pc, mstate, all_scored, scroll_attempt,
          requests, best, tier, click, found, results,
          dQuery, dPage, dDoc, dStep, dEnergy, dSupplier, dOcr, dFields, dProduct,
          popText, popResult>>

normVars == <<nIn, nOut, nOut2>>
scoreVars == <<sQuery, sText, sTitle, sResult, sPrev, sIns, sFrags>>
parseVars == <<pQuery, pShape, pInfo>>
runVars == <<queries, evaluation, qi, pc, mstate, all_scored, scroll_attempt,
             requests, best, tier, click, found, results>>
pdfVars == <<dQuery, dPage, dDoc, dStep, dEnergy, dSupplier, dOcr, dFields, dProduct>>
popVars == <<popText, popResult>>

\* Python's None where the other values are strings.
None == "None"

\* Python's None where the other values are candidate tuples.
NoCandidate == [none |-> TRUE]

(***************************************************************************)
(* Characters                                                              *)
(***************************************************************************)
LowerAZ == "abcdefghijklmnopqrstuvwxyz"
UpperAZ == "ABCDEFGHIJKLMNOPQRSTUVWXYZ"
LowerUml == "äöüß"
UpperUml == "ÄÖÜ"
Digits09 == "0123456789"

\* The i-th character of s, as a one-character string.
Ch(s, i) == SubSeq(s, i, i)

\* The set of the characters of a string.
CharSet(chars) == {Ch(chars, i) : i \in 1..Len(chars)}

NormLetterSet == CharSet(LowerAZ) \cup CharSet(LowerUml)

DigitSet == CharSet(Digits09)

UpperSet == CharSet(UpperAZ) \cup CharSet(UpperUml)

WordCharSet == NormLetterSet \cup UpperSet \cup DigitSet \cup {"_"}

\* str.lower() on the upper-case characters.
LowerMap ==
    [c \in UpperSet |->
        IF c \in CharSet(UpperAZ)
        THEN Ch(LowerAZ, CHOOSE i \in 1..Len(UpperAZ) : Ch(UpperAZ, i) = c)
        ELSE Ch(LowerUml, CHOOSE i \in 1..Len(UpperUml) : Ch(UpperUml, i) = c)]

\* str.lower() on one character.
LowerChar(c) == IF c \in UpperSet THEN LowerMap[c] ELSE c

\* [a-zäöüß]
IsNormLetter(c) == c \in NormLetterSet

\* \d and [0-9]
IsDigit(c) == c \in DigitSet

\* [a-z0-9äöüß]
IsNormAlnum(c) == IsNormLetter(c) \/ IsDigit(c)

\* \s
IsSpace(c) == c \in {" ", "\n", "\t", "\r"}

\* \w
IsWordChar(c) == c \in WordCharSet

(***************************************************************************)
(* String primitives                                                       *)
(***************************************************************************)
\* F applied to the value of v, v being computed once: TLC computes a set's
\* elements when it enumerates the set, while it recomputes a LET definition
\* or an argument wherever it is used.
Bind(v, F(_)) == CHOOSE r \in {F(x) : x \in {v}} : TRUE

RECURSIVE LowerFrom(_, _, _)
LowerFrom(s, i, j) ==
    IF i > j THEN ""
    ELSE IF i = j THEN LowerChar(Ch(s, i))
    ELSE LET m == (i + j) \div 2
         IN LowerFrom(s, i, m) \o LowerFrom(s, m + 1, j)

\* str.lower()
Lower(s) == LowerFrom(s, 1, Len(s))

\* s[i:] starts with lit (i is 1-based)
LitAt(s, i, lit) ==
    /\ i >= 1
    /\ i + Len(lit) - 1 <= Len(s)
    /\ SubSeq(s, i, i + Len(lit) - 1) = lit

\* sub in s
Contains(s, sub) ==
    \E t \in {s} : \E i \in 1..(Len(t) - Len(sub) + 1) : LitAt(t, i, sub)

\* s.startswith(p)
StartsWith(s, p) == LitAt(s, 1, p)

RECURSIVE LStrip(_)
LStrip(s) == IF Len(s) > 0 /\ IsSpace(Ch(s, 1)) THEN LStrip(Tail(s)) ELSE s

RECURSIVE RStrip(_)
RStrip(s) ==
    IF Len(s) > 0 /\ IsSpace(Ch(s, Len(s)))
    THEN RStrip(SubSeq(s, 1, Len(s) - 1)) ELSE s

\* str.strip()
Strip(s) == RStrip(LStrip(s))

\* str.split(): the maximal runs of non-whitespace characters, in order.
RECURSIVE SplitFrom(_, _, _)
SplitFrom(s, i, cur) ==
    IF i > Len(s) THEN (IF cur = "" THEN <<>> ELSE <<cur>>)
    ELSE IF IsSpace(Ch(s, i))
         THEN (IF cur = "" THEN <<>> ELSE <<cur>>) \o SplitFrom(s, i + 1, "")
         ELSE SplitFrom(s, i + 1, cur \o Ch(s, i))

Split(s) == SplitFrom(s, 1, "")

\* re.search(rf"\b{re.escape(w)}\b", s) for a word w of \w characters: w occurs
\* with no \w character right before it and none right after it.
WordSearch(s, w) ==
    \E i \in 1..(Len(s) - Len(w) + 1) :
        /\ LitAt(s, i, w)
        /\ (i = 1 \/ ~IsWordChar(Ch(s, i - 1)))
        /\ (i + Len(w) > Len(s) \/ ~IsWordChar(Ch(s, i + Len(w))))

(***************************************************************************)
(* _normalize                                                              *)
(***************************************************************************)
\* re.sub(r"([a-zäöüß])(\d)", r"\1 \2", s): every non-overlapping match, left
\* to right.
RECURSIVE SplitLetterDigitFrom(_, _)
SplitLetterDigitFrom(s, i) ==
    IF i > Len(s) THEN ""
    ELSE IF i < Len(s) /\ IsNormLetter(Ch(s, i)) /\ IsDigit(Ch(s, i + 1))
         THEN Ch(s, i) \o " " \o Ch(s, i + 1) \o SplitLetterDigitFrom(s, i + 2)
         ELSE Ch(s, i) \o SplitLetterDigitFrom(s, i + 1)

\* The same substitution with count=1: only the first match is replaced.
RECURSIVE SplitLetterDigitOnce(_, _)
SplitLetterDigitOnce(s, i) ==
    IF i > Len(s) THEN ""
    ELSE IF i < Len(s) /\ IsNormLetter(Ch(s, i)) /\ IsDigit(Ch(s, i + 1))
         THEN Ch(s, i) \o " " \o SubSeq(s, i + 1, Len(s))
         ELSE Ch(s, i) \o SplitLetterDigitOnce(s, i + 1)

SubLetterDigitFirstOnly(s) == SplitLetterDigitOnce(s, 1)

SubLetterDigit(s) == SplitLetterDigitFrom(s, 1)

\* re.sub(r"(\d)([a-zäöüß])", r"\1 \2", s)
RECURSIVE SplitDigitLetterFrom(_, _)
SplitDigitLetterFrom(s, i) ==
    IF i > Len(s) THEN ""
    ELSE IF i < Len(s) /\ IsDigit(Ch(s, i)) /\ IsNormLetter(Ch(s, i + 1))
         THEN Ch(s, i) \o " " \o Ch(s, i + 1) \o SplitDigitLetterFrom(s, i + 2)
         ELSE Ch(s, i) \o SplitDigitLetterFrom(s, i + 1)

SubDigitLetter(s) == SplitDigitLetterFrom(s, 1)

\* re.sub(r"[^a-z0-9äöüß]+", " ", s): every maximal run of other characters
\* becomes one space.
RECURSIVE SubNonAlnumFrom(_, _)
SubNonAlnumFrom(s, i) ==
    IF i > Len(s) THEN ""
    ELSE IF IsNormAlnum(Ch(s, i)) THEN Ch(s, i) \o SubNonAlnumFrom(s, i + 1)
    ELSE IF i > 1 /\ ~IsNormAlnum(Ch(s, i - 1)) THEN SubNonAlnumFrom(s, i + 1)
    ELSE " " \o SubNonAlnumFrom(s, i + 1)

SubNonAlnum(s) == SubNonAlnumFrom(s, 1)

\* re.sub(r"\s+", " ", s)
RECURSIVE CollapseSpaceFrom(_, _)
CollapseSpaceFrom(s, i) ==
    IF i > Len(s) THEN ""
    ELSE IF ~IsSpace(Ch(s, i)) THEN Ch(s, i) \o CollapseSpaceFrom(s, i + 1)
    ELSE IF i > 1 /\ IsSpace(Ch(s, i - 1)) THEN CollapseSpaceFrom(s, i + 1)
    ELSE " " \o CollapseSpaceFrom(s, i + 1)

CollapseSpace(s) == CollapseSpaceFrom(s, 1)

_normalize(text) ==
    Strip(CollapseSpace(SubNonAlnum(SubDigitLetter(SubLetterDigit(Lower(text))))))

(***************************************************************************)
(* Vocabularies (BRAND / MODEL UTILITIES)                                  *)
(***************************************************************************)
\* The brands of BRAND_FAMILIES, in the dict's iteration order.
BrandOrder ==
    <<"apple", "samsung", "google", "oneplus", "xiaomi", "huawei", "sony",
      "motorola", "nothing">>

\* BRAND_FAMILIES[brand]["product_lines"]
ProductLines ==
    [apple |-> <<"iphone", "ipad", "macbook", "mac">>,
     samsung |-> <<"galaxy">>,
     google |-> <<"pixel">>,
     oneplus |-> <<"oneplus">>,
     xiaomi |-> <<"xiaomi", "redmi", "poco">>,
     huawei |-> <<"huawei", "mate">>,
     sony |-> <<"xperia">>,
     motorola |-> <<"moto", "motorola">>,
     nothing |-> <<"nothing">>]

\* BRAND_FAMILIES[brand]["category"]
Category == [b \in DOMAIN ProductLines |-> "phone"]

\* BRAND_FAMILIES[brand]["model_re"]. A pattern is a sequence of groups, each a
\* list of alternative literals in the regex's order of preference ("" makes
\* the group optional) followed by \s* when ws is TRUE, and then one capture:
\* "d12" is (\d{1,2}), "d" is (\d+), "w" is (\w+).
ModelRe ==
    [apple |-> [groups |-> << [alts |-> <<"iphone", "ipad">>, ws |-> TRUE] >>,
                cap |-> "d12"],
     samsung |-> [groups |-> << [alts |-> <<"galaxy">>, ws |-> TRUE],
                                [alts |-> <<"z", "">>, ws |-> TRUE],
                                [alts |-> <<"flip", "fold", "s", "a", "m", "note">>,
                                 ws |-> TRUE] >>,
                  cap |-> "d12"],
     google |-> [groups |-> << [alts |-> <<"pixel">>, ws |-> TRUE] >>,
                 cap |-> "d12"],
     oneplus |-> [groups |-> << [alts |-> <<"oneplus">>, ws |-> TRUE] >>,
                  cap |-> "d12"],
     xiaomi |-> [groups |-> << [alts |-> <<"xiaomi", "redmi", "poco">>, ws |-> TRUE],
                               [alts |-> <<"note", "">>, ws |-> TRUE] >>,
                 cap |-> "d12"],
     huawei |-> [groups |-> << [alts |-> <<"huawei", "mate", "p">>, ws |-> TRUE] >>,
                 cap |-> "d12"],
     sony |-> [groups |-> << [alts |-> <<"xperia">>, ws |-> TRUE] >>,
               cap |-> "w"],
     motorola |-> [groups |-> << [alts |-> <<"moto">>, ws |-> FALSE],
                                 [alts |-> <<"rola", "">>, ws |-> TRUE] >>,
                   cap |-> "w"],
     nothing |-> [groups |-> << [alts |-> <<"nothing">>, ws |-> TRUE],
                                [alts |-> <<"phone">>, ws |-> TRUE],
                                [alts |-> <<"(", "">>, ws |-> FALSE] >>,
                  cap |-> "d"]]

VARIANT_TOKENS == <<"pro", "max", "ultra", "plus", "lite", "fe", "mini", "xl">>

ACCESSORY_KEYWORDS_NORM ==
    {"huelle", "case", "cover", "bumper", "handyhuelle",
     "schale", "schutzhuelle", "backcover", "flipcase", "bookcase",
     "klapphuelle", "klappcover", "etui", "silikonhuelle",
     "displayschutz", "folie", "schutzfolie", "schutzglas", "panzerglas",
     "panzerfolie", "displayfolie",
     "kabel", "ladekabel", "netzteil",
     "earphone", "earphones", "headphone", "headphones",
     "earbud", "earbuds", "headset",
     "halter", "halterung", "autohalterung",
     "staender", "stativ", "handyhalterung",
     "magnethalterung", "saugnapf",
     "tasche", "pouch",
     "ersatzakku", "powerbank",
     "wristband", "stylus", "eingabestift",
     "reinigung", "reinigungsset", "cleaning", "selfiestick",
     "ringhalter", "fingerhalter", "popgrip", "popsocket",
     "simkarte", "speicherkarte", "sdkarte"}

ACCESSORY_KEYWORDS_RAW ==
    {"hülle", "huelle", "schutzhülle", "schutzhuelle", "handyhülle",
     "handyhuelle", "schutzfolie", "panzerglas", "panzerfolie",
     "screen protector", "tempered glass",
     "halter", "halterung", "kfz-halter", "kfz-halterung",
     "kfz halter", "kfz halterung", "lüfterhalter", "luefterhalter",
     "autohalterung", "handyhalterung",
     "ladegerät", "ladegeraet", "ladekabel", "netzteil",
     "kopfhörer", "kopfhoerer", "headset", "earbuds",
     "tasche", "pouch", "gürteltasche",
     "powerbank", "ersatzakku",
     "selfiestick", "selfie-stick",
     "popgrip", "popsocket",
     "silikon case", "silikon hülle", "tpu case", "tpu hülle",
     "hardcase", "hard case", "kfz", "charger", "adapter", "armband",
     "phone case", "protective case", "slim case"}

WRONG_CATEGORY_KEYWORDS ==
    {"macbook", "notebook", "laptop", "imac", "mac mini", "mac studio",
     "mac pro", "airpods", "apple watch", "watch ultra", "homepod",
     "apple tv", "airtag", "magic keyboard", "magic mouse", "magic trackpad",
     "galaxy tab", "galaxy watch", "galaxy buds",
     "pixel watch", "pixel buds", "pixel tablet",
     "smart tv", "fernseher", "monitor", "drucker", "printer"}

NOISE_WORDS ==
    {"gb", "tb", "speicher", "farbe", "dual", "sim", "dualsim",
     "schwarz", "weiss", "silber", "rot", "blau", "gruen",
     "white", "black", "blue", "green", "red", "silver", "gold",
     "pink", "pinkgold", "titanium", "cosmic", "orange", "navy",
     "mint", "iris", "moonstone",
     "128", "256", "512", "1000", "64", "32"}

(***************************************************************************)
(* Regular-expression pieces                                               *)
(***************************************************************************)
MinOf(S) == Bind(S, LAMBDA Sv : CHOOSE x \in Sv : \A y \in Sv : x <= y)

\* The position after \s* matched greedily from position j.
RECURSIVE SkipWs(_, _)
SkipWs(s, j) == IF j <= Len(s) /\ IsSpace(Ch(s, j)) THEN SkipWs(s, j + 1) ELSE j

\* The end (exclusive) of the maximal run of characters of class at position j.
RECURSIVE RunEnd(_, _, _)
RunEnd(s, j, class) ==
    IF j <= Len(s) /\ Ch(s, j) \in class THEN RunEnd(s, j + 1, class) ELSE j

\* What a capture group matches at position j, or None.
Capture(s, j, cap) ==
    IF j < 1 \/ j > Len(s) THEN None
    ELSE IF cap = "d12"
         THEN (IF ~IsDigit(Ch(s, j)) THEN None
               ELSE IF j < Len(s) /\ IsDigit(Ch(s, j + 1)) THEN SubSeq(s, j, j + 1)
               ELSE Ch(s, j))
    ELSE IF cap = "d"
         THEN (IF ~IsDigit(Ch(s, j)) THEN None
               ELSE SubSeq(s, j, RunEnd(s, j, DigitSet) - 1))
    ELSE (IF ~IsWordChar(Ch(s, j)) THEN None
          ELSE SubSeq(s, j, RunEnd(s, j, WordCharSet) - 1))

\* The capture of the first way (in the regex's backtracking order) in which
\* groups k.. of pat and then its capture match at position i, or None.
RECURSIVE MatchAt(_, _, _, _)
MatchAt(s, i, pat, k) ==
    IF k > Len(pat.groups) THEN Capture(s, i, pat.cap)
    ELSE LET g == pat.groups[k]
             r == [n \in 1..Len(g.alts) |->
                     IF LitAt(s, i, g.alts[n])
                     THEN MatchAt(s,
                                  IF g.ws THEN SkipWs(s, i + Len(g.alts[n]))
                                  ELSE i + Len(g.alts[n]),
                                  pat, k + 1)
                     ELSE None]
             ok == {n \in 1..Len(g.alts) : r[n] # None}
         IN IF ok = {} THEN None ELSE r[MinOf(ok)]

\* re.search(pattern, s).group(1): the capture of the leftmost match, or None.
SearchGroup(s, pat) ==
    LET at == {i \in 1..Len(s) : MatchAt(s, i, pat, 1) # None}
    IN IF at = {} THEN None ELSE MatchAt(s, MinOf(at), pat, 1)

\* re.search(r"\b(\d{1,2})\b", s).group(1), or None: the leftmost whole word of
\* one or two digits.
StandaloneNumber(s) ==
    LET ok(i, n) == /\ i + n - 1 <= Len(s)
                    /\ \A k \in i..(i + n - 1) : IsDigit(Ch(s, k))
                    /\ (i = 1 \/ ~IsWordChar(Ch(s, i - 1)))
                    /\ (i + n > Len(s) \/ ~IsWordChar(Ch(s, i + n)))
        at == {i \in 1..Len(s) : ok(i, 1) \/ ok(i, 2)}
    IN IF at = {} THEN None
       ELSE LET i == MinOf(at)
            IN IF ok(i, 2) THEN SubSeq(s, i, i + 1) ELSE Ch(s, i)

\* The group (word) of r"galaxy\s+(?:z\s+)?(word)<sep>\d" matched at position i,
\* or None: optZ allows the optional "z\s+"; sep is \s* (always so in the code).
SubFamilyAt(s, i, optZ, words) ==
    IF ~(LitAt(s, i, "galaxy") /\ i + 6 <= Len(s) /\ IsSpace(Ch(s, i + 6)))
    THEN None
    ELSE LET j == SkipWs(s, i + 6)
             starts ==
                 (IF optZ /\ LitAt(s, j, "z") /\ j + 1 <= Len(s) /\ IsSpace(Ch(s, j + 1))
                  THEN <<SkipWs(s, j + 1)>> ELSE <<>>) \o <<j>>
             hit == {p \in (1..Len(starts)) \X (1..Len(words)) :
                        /\ LitAt(s, starts[p[1]], words[p[2]])
                        /\ LET d == SkipWs(s, starts[p[1]] + Len(words[p[2]]))
                           IN d <= Len(s) /\ IsDigit(Ch(s, d))}
         IN IF hit = {} THEN None
            ELSE LET p1 == MinOf({p[1] : p \in hit})
                     p2 == MinOf({p[2] : p \in {q \in hit : q[1] = p1}})
                 IN words[p2]

SearchSubFamily(s, optZ, words) ==
    LET at == {i \in 1..Len(s) : SubFamilyAt(s, i, optZ, words) # None}
    IN IF at = {} THEN None ELSE SubFamilyAt(s, MinOf(at), optZ, words)

(***************************************************************************)
(* QUERY ANALYSIS                                                          *)
(***************************************************************************)
\* A brand matches when its name is a substring of the query or one of its
\* product lines is a whole word of it; the first brand in dict order wins.
BrandMatches(qn, brand) ==
    \/ Contains(qn, brand)
    \/ \E k \in 1..Len(ProductLines[brand]) : WordSearch(qn, ProductLines[brand][k])

_detect_brand(qn) ==
    LET hit == {b \in 1..Len(BrandOrder) : BrandMatches(qn, BrandOrder[b])}
    IN IF hit = {} THEN None ELSE BrandOrder[MinOf(hit)]

_extract_product_line(qn, brand) ==
    IF brand = None THEN ""
    ELSE LET pls == ProductLines[brand]
             hit == {k \in 1..Len(pls) : WordSearch(qn, pls[k])}
         IN IF hit = {} THEN "" ELSE pls[MinOf(hit)]

\* The sub-family patterns without the optional "z".
ExtractSamsungSubWithoutZ(qn) ==
    LET m1 == SearchSubFamily(qn, FALSE, <<"flip", "fold">>)
        m3 == SearchSubFamily(qn, FALSE, <<"s", "a", "m", "note">>)
    IN IF m1 # None THEN m1 ELSE IF m3 # None THEN m3 ELSE ""

\* The second pattern of the code, (flip|fold)\d, is the first with \s* empty.
_extract_samsung_sub(qn) ==
    LET m1 == SearchSubFamily(qn, TRUE, <<"flip", "fold">>)
        m3 == SearchSubFamily(qn, FALSE, <<"s", "a", "m", "note">>)
    IN IF m1 # None THEN m1 ELSE IF m3 # None THEN m3 ELSE ""

_extract_model(qn, brand) ==
    LET m == IF brand = None THEN None ELSE SearchGroup(qn, ModelRe[brand])
        n == StandaloneNumber(qn)
    IN IF m # None THEN m ELSE IF n # None THEN n ELSE ""

_extract_variants(qn) ==
    LET present(t) == WordSearch(qn, t) IN SelectSeq(VARIANT_TOKENS, present)

_tokenize(qn) ==
    LET keep(t) == t # "" /\ t \notin NOISE_WORDS IN SelectSeq(Split(qn), keep)

\* QueryInfo.from_query
from_query(query) ==
    LET norm == _normalize(query)
        brand == _detect_brand(norm)
    IN [raw |-> query,
        norm |-> norm,
        brand |-> brand,
        product_line |-> _extract_product_line(norm, brand),
        samsung_sub |-> _extract_samsung_sub(norm),
        model_number |-> _extract_model(norm, brand),
        variant_tokens |-> _extract_variants(norm),
        search_tokens |-> _tokenize(norm)]

(***************************************************************************)
(* TEXT UTILITIES and the candidate scorer                                 *)
(***************************************************************************)
\* The number of tokens (with repetitions) found as whole words of text.
_match_score(text, tokens) ==
    Cardinality({k \in 1..Len(tokens) : WordSearch(text, tokens[k])})

\* Only the title is searched for the keywords.
IsAccessoryTitleOnly(title_norm, card_norm, raw_lower) ==
    \E kw \in ACCESSORY_KEYWORDS_NORM : Contains(title_norm, kw)

\* The keyword lengths of a set of keywords.
KeywordLengths(kws) == {Len(kw) : kw \in kws}

\* any(kw in s for kw in kws): some substring of s is one of the keywords.
ContainsAny(s, kws, lens) ==
    \E i \in 1..Len(s) :
        \E n \in lens : i + n - 1 <= Len(s) /\ SubSeq(s, i, i + n - 1) \in kws

AccessoryNormLengths == KeywordLengths(ACCESSORY_KEYWORDS_NORM)

AccessoryRawLengths == KeywordLengths(ACCESSORY_KEYWORDS_RAW)

WrongCategoryLengths == KeywordLengths(WRONG_CATEGORY_KEYWORDS)

_is_accessory(title_norm, card_norm, raw_lower) ==
    \/ ContainsAny(title_norm, ACCESSORY_KEYWORDS_NORM, AccessoryNormLengths)
    \/ ContainsAny(card_norm, ACCESSORY_KEYWORDS_NORM, AccessoryNormLengths)
    \/ ContainsAny(raw_lower, ACCESSORY_KEYWORDS_RAW, AccessoryRawLengths)

_is_wrong_category(combined, raw_lower, brand) ==
    /\ brand # None
    /\ Category[brand] = "phone"
    /\ \/ ContainsAny(combined, WRONG_CATEGORY_KEYWORDS, WrongCategoryLengths)
       \/ ContainsAny(raw_lower, WRONG_CATEGORY_KEYWORDS, WrongCategoryLengths)

_is_sponsored(raw_lower) ==
    \/ Contains(raw_lower, "gesponsert")
    \/ Contains(raw_lower, "anzeige")
    \/ Contains(raw_lower, "sponsored")

\* tokens[i + 1 : i + 1 + n] of Python for the 1-based position i of the anchor.
Window(tokens, i, n) ==
    SubSeq(tokens, i + 1, IF i + n <= Len(tokens) THEN i + n ELSE Len(tokens))

InSeq(x, seq) == \E k \in 1..Len(seq) : seq[k] = x

\* The window after a sub-family anchor holds 3 tokens, the window after a
\* product-line anchor 4.
SubWindow == 3

LineWindow == 4

\* _model_near with the 4-token window after the sub-family anchor as well.
ModelNearSubWindowFour(text, q) ==
    LET tokens == Split(text)
    IN IF q.samsung_sub # ""
       THEN \E i \in 1..Len(tokens) :
               /\ tokens[i] = q.samsung_sub
               /\ InSeq(q.model_number, Window(tokens, i, LineWindow))
       ELSE /\ q.product_line # ""
            /\ \E i \in 1..Len(tokens) :
                  /\ StartsWith(tokens[i], q.product_line)
                  /\ \/ InSeq(q.model_number, Window(tokens, i, LineWindow))
                     \/ Strip(SubSeq(tokens[i], Len(q.product_line) + 1,
                                     Len(tokens[i]))) = q.model_number

\* OttoNavigator._model_near
_model_near(text, q) ==
    LET tokens == Split(text)
    IN IF q.samsung_sub # ""
       THEN \E i \in 1..Len(tokens) :
               /\ tokens[i] = q.samsung_sub
               /\ InSeq(q.model_number, Window(tokens, i, SubWindow))
       ELSE /\ q.product_line # ""
            /\ \E i \in 1..Len(tokens) :
                  /\ StartsWith(tokens[i], q.product_line)
                  /\ \/ InSeq(q.model_number, Window(tokens, i, LineWindow))
                     \/ Strip(SubSeq(tokens[i], Len(q.product_line) + 1,
                                     Len(tokens[i]))) = q.model_number

\* re.fullmatch(r"\d{1,2}", t)
IsNum12(t) == Len(t) \in {1, 2} /\ \A k \in 1..Len(t) : IsDigit(Ch(t, k))

_conflicting_model(text, q) ==
    LET tokens == Split(text)
        anchor == IF q.samsung_sub # "" THEN q.samsung_sub ELSE q.product_line
    IN /\ anchor # ""
       /\ \E i \in 1..Len(tokens) :
             /\ StartsWith(tokens[i], anchor)
             /\ LET window == Window(tokens, i, LineWindow)
                    nums == SelectSeq(window, IsNum12)
                IN /\ nums # <<>>
                   /\ \A k \in 1..Len(nums) : nums[k] # q.model_number

_has_sub_family(text, sub) ==
    \E i \in 1..Len(text) :
        /\ LitAt(text, i, "galaxy")
        /\ i + 6 <= Len(text) /\ IsSpace(Ch(text, i + 6))
        /\ LET j == SkipWs(text, i + 6)
           IN IF sub \in {"flip", "fold"}
              THEN /\ LitAt(text, j, "z")
                   /\ j + 1 <= Len(text) /\ IsSpace(Ch(text, j + 1))
                   /\ LET k == SkipWs(text, j + 1)
                      IN /\ LitAt(text, k, sub)
                         /\ \/ k + Len(sub) > Len(text)
                            \/ ~IsWordChar(Ch(text, k + Len(sub)))
              ELSE /\ LitAt(text, j, sub)
                   /\ LET d == SkipWs(text, j + Len(sub))
                      IN d <= Len(text) /\ IsDigit(Ch(text, d))

SeqToSet(seq) == {seq[k] : k \in 1..Len(seq)}

\* A card is [text: card.inner_text(), title: _extract_title(card), link: the
\* card's link handle, "" when the card has no link].
\* The score of a card that passed the hard filters, before the model conflict
\* check: token overlap, brand, product line, model, sub-family, variants,
\* category marker.
CardScore(combined, q) ==
    LET expected == SeqToSet(q.variant_tokens)
        present == {vt \in SeqToSet(VARIANT_TOKENS) : WordSearch(combined, vt)}
    IN _match_score(combined, q.search_tokens) * 2
       + (IF q.brand # None /\ Contains(combined, q.brand) THEN 3 ELSE 0)
       + (IF q.product_line # "" /\ Contains(combined, q.product_line) THEN 3 ELSE 0)
       + (IF q.model_number = "" THEN 0
          ELSE IF _model_near(combined, q) THEN 15
          ELSE IF WordSearch(combined, q.model_number) THEN 5
          ELSE -10)
       + (IF q.samsung_sub = "" THEN 0
          ELSE IF _has_sub_family(combined, q.samsung_sub) THEN 10 ELSE -15)
       + 8 * Cardinality(expected \cap present)
       - 10 * Cardinality(expected \ present)
       - 8 * Cardinality(present \ expected)
       + (IF \E w \in {"smartphone", "handy", "mobiltelefon"} : Contains(combined, w)
          THEN 5 ELSE 0)

\* (score, idx, link, model_ok), or None.
_evaluate_card(card, idx, q) ==
    LET raw_lower == Lower(card.text)
        title_norm == IF card.title # "" THEN _normalize(card.title) ELSE ""
        card_norm == _normalize(card.text)
        combined == title_norm \o " " \o card_norm
    IN IF _is_sponsored(raw_lower) THEN NoCandidate
       ELSE IF _is_accessory(title_norm, card_norm, raw_lower) THEN NoCandidate
       ELSE IF _is_wrong_category(combined, raw_lower, q.brand) THEN NoCandidate
       ELSE IF q.product_line # "" /\ ~Contains(combined, q.product_line) THEN NoCandidate
       ELSE IF q.model_number # "" /\ _conflicting_model(combined, q) THEN NoCandidate
       ELSE LET score == CardScore(combined, q)
            IN IF score <= 0 THEN NoCandidate
               ELSE IF card.link = "" THEN NoCandidate
               ELSE [score |-> score, idx |-> idx, link |-> card.link,
                     model_ok |->
                        \/ q.model_number = ""
                        \/ /\ \/ _model_near(combined, q)
                              \/ WordSearch(combined, q.model_number)
                           /\ ~_conflicting_model(combined, q)]

(***************************************************************************)
(* Behaviours that exercise _normalize on every string over NormAlphabet   *)
(* of length at most MaxNormLen.                                           *)
(***************************************************************************)
MaxNormLen == 5

NormAlphabet == {"a", "B", "1", " ", "-", "ü"}

IdleRun ==
    /\ queries = <<>> /\ evaluation = <<>> /\ qi = 0 /\ pc = "off"
    /\ mstate = "IDLE"
    /\ all_scored = <<>> /\ scroll_attempt = 0 /\ requests = 0
    /\ best = NoCandidate /\ tier = "" /\ click = "" /\ found = FALSE
    /\ results = <<>>

IdleScore ==
    /\ sQuery = "" /\ sText = "" /\ sTitle = "" /\ sResult = NoCandidate
    /\ sPrev = NoCandidate /\ sIns = "" /\ sFrags = 0

IdleNorm == nIn = "" /\ nOut = "" /\ nOut2 = ""

\* A query not parsed yet.
Unparsed == [unparsed |-> TRUE]

IdleParse == pQuery = "" /\ pShape = <<>> /\ pInfo = Unparsed

IdlePopup == popText = "" /\ popResult = ""

IdlePdf ==
    /\ dQuery = "" /\ dPage = <<>> /\ dDoc = <<>> /\ dStep = "off"
    /\ dEnergy = "" /\ dSupplier = "" /\ dOcr = FALSE
    /\ dFields = <<>> /\ dProduct = <<>>

InitNorm ==
    /\ mode = "normalize"
    /\ nIn = "" /\ nOut = _normalize("") /\ nOut2 = _normalize(_normalize(""))
    /\ IdleScore /\ IdleParse /\ IdleRun /\ IdlePdf /\ IdlePopup

\* One more character of input arrives and the text is normalised, once and
\* then again on its own output.
NormAppend ==
    /\ mode = "normalize"
    /\ Len(nIn) < MaxNormLen
    /\ \E c \in NormAlphabet :
          /\ nIn' = nIn \o c
          /\ nOut' = _normalize(nIn \o c)
          /\ nOut2' = _normalize(_normalize(nIn \o c))
    /\ UNCHANGED <<mode, scoreVars, parseVars, runVars, pdfVars, popVars>>

NextNorm == NormAppend

SpecNorm == InitNorm /\ [][NextNorm]_vars

\* C9: _normalize is idempotent: normalising the normalised text changes nothing.
NormalizeIdempotent == nOut2 = nOut

\* A mixed letter/digit input whose normalisation differs from it has been
\* normalised.
NormalizeIdempotentWitness ==
    /\ Contains(nIn, "a1") /\ Contains(nIn, "1a") /\ nOut # nIn /\ nOut2 = nOut


(***************************************************************************)
(* Behaviours that exercise the scorer: a query is fixed, a card's text is *)
(* built fragment by fragment and evaluated after every change; one        *)
(* search token missing from the card may then be inserted between two     *)
(* words of the text and the card evaluated again.                         *)
(***************************************************************************)
MaxCardWords == 3

ScoreQueries == {"iPhone 17", "iPhone 17 Pro"}

\* Fragments of listing text, as displayed (raw).
CardFragments == {"iPhone", "16", "17", "Pro", "Hülle", "Case", "6,1-Zoll"}

CardTitles == {"", "Case", "iPhone 17 Pro"}

ScoreLink == "/p/1"

\* QueryInfo.from_query of each query, parsed once per query.
ScoreQueryInfo == [q \in ScoreQueries |-> from_query(q)]

RECURSIVE Join(_)
Join(ws) ==
    IF ws = <<>> THEN ""
    ELSE IF Len(ws) = 1 THEN ws[1]
    ELSE ws[1] \o " " \o Join(Tail(ws))

ScoreCard(text, title) == [text |-> text, title |-> title, link |-> ScoreLink]

\* The text the scorer scores: title_norm + " " + card_norm.
Combined(text, title) ==
    (IF title # "" THEN _normalize(title) ELSE "") \o " " \o _normalize(text)

InitScore ==
    /\ mode = "score"
    /\ sQuery \in ScoreQueries
    /\ sTitle \in CardTitles
    /\ sText = ""
    /\ sResult = _evaluate_card(ScoreCard("", sTitle), 0, ScoreQueryInfo[sQuery])
    /\ sPrev = NoCandidate
    /\ sIns = ""
    /\ sFrags = 0
    /\ IdleNorm /\ IdleParse /\ IdleRun /\ IdlePdf /\ IdlePopup

\* The card shows one more fragment; it is evaluated.
ScoreAppend ==
    /\ mode = "score"
    /\ sIns = ""
    /\ \E f \in CardFragments :
          LET text == IF sText = "" THEN f ELSE sText \o " " \o f
          IN /\ Len(Split(sText)) < MaxCardWords
             /\ sText' = text
             /\ sResult' = _evaluate_card(ScoreCard(text, sTitle), 0,
                                          ScoreQueryInfo[sQuery])
    /\ sFrags' = sFrags + 1
    /\ UNCHANGED <<mode, normVars, sQuery, sTitle, sPrev, sIns, parseVars, runVars, pdfVars, popVars>>

\* One search token of the query that does not occur in an accepted card is
\* added to its text after its p-th word, all else equal; the card is evaluated
\* again.
ScoreInsert ==
    /\ mode = "score"
    /\ sIns = ""
    /\ sResult # NoCandidate
    /\ LET q == ScoreQueryInfo[sQuery]
           ws == Split(sText)
       IN \E k \in 1..Len(q.search_tokens), p \in 0..Len(ws) :
             LET tok == q.search_tokens[k]
                 text == Join(SubSeq(ws, 1, p) \o <<tok>> \o SubSeq(ws, p + 1, Len(ws)))
             IN /\ ~WordSearch(Combined(sText, sTitle), tok)
                /\ sIns' = tok
                /\ sPrev' = sResult
                /\ sText' = text
                /\ sResult' = _evaluate_card(ScoreCard(text, sTitle), 0, q)
    /\ UNCHANGED <<mode, normVars, sQuery, sTitle, sFrags, parseVars, runVars, pdfVars, popVars>>

NextScore == ScoreAppend \/ ScoreInsert

SpecScore == InitScore /\ [][NextScore]_vars

\* An accessory keyword occurs in the normalised title, the normalised body or
\* the raw lower-cased text of the card under evaluation.
HasAccessoryKeyword ==
    \/ ContainsAny(IF sTitle # "" THEN _normalize(sTitle) ELSE "",
                   ACCESSORY_KEYWORDS_NORM, AccessoryNormLengths)
    \/ ContainsAny(_normalize(sText), ACCESSORY_KEYWORDS_NORM, AccessoryNormLengths)
    \/ ContainsAny(Lower(sText), ACCESSORY_KEYWORDS_RAW, AccessoryRawLengths)

\* C6: hard-reject precedence: a card with an accessory keyword in its
\* normalised title, its normalised body or its raw lower-cased text is
\* rejected by the scorer, whatever the rest of its text would score.
AccessoryAlwaysRejected ==
    (mode = "score" /\ HasAccessoryKeyword) => sResult = NoCandidate

\* A card that only the raw keyword set catches (its normalised text holds no
\* keyword of the normalised set), that no other hard filter rejects and whose
\* text scores at least 20, has been rejected.
AccessoryAlwaysRejectedWitness ==
    /\ mode = "score"
    /\ \E kw \in ACCESSORY_KEYWORDS_RAW : Contains(Lower(sText), kw)
    /\ ~\E kw \in ACCESSORY_KEYWORDS_NORM : Contains(Combined(sText, sTitle), kw)
    /\ ~_is_sponsored(Lower(sText))
    /\ ~_is_wrong_category(Combined(sText, sTitle), Lower(sText), ScoreQueryInfo[sQuery].brand)
    /\ ~_conflicting_model(Combined(sText, sTitle), ScoreQueryInfo[sQuery])
    /\ CardScore(Combined(sText, sTitle), ScoreQueryInfo[sQuery]) >= 20
    /\ sResult = NoCandidate

\* C7 (as claimed): for a query with product line L and model number M, a card
\* whose normalised text has the token L directly followed by a one- or
\* two-digit number other than M is rejected.
ConflictingModelRejected ==
    LET q == ScoreQueryInfo[sQuery]
        tokens == Split(Combined(sText, sTitle))
    IN (/\ mode = "score"
        /\ q.product_line # "" /\ q.model_number # ""
        /\ \E i \in 1..(Len(tokens) - 1) :
              /\ tokens[i] = q.product_line
              /\ IsNum12(tokens[i + 1])
              /\ tokens[i + 1] # q.model_number)
       => sResult = NoCandidate

\* C8 (as claimed): adding a matching search token that the card lacks never
\* turns an accepted card into a rejected one and never lowers its score.
InsertMonotone ==
    (mode = "score" /\ sIns # "" /\ sPrev # NoCandidate)
       => (sResult # NoCandidate /\ sResult.score >= sPrev.score)


(***************************************************************************)
(* PDF EXTRACTOR: the energy class                                         *)
(***************************************************************************)
\* str.splitlines(), for texts whose line breaks are "\n": the pieces between
\* the line breaks, without an empty piece after a final line break.
SplitLines(s) ==
    LET n == Len(s)
        breaks == {i \in 1..n : Ch(s, i) = "\n"}
        nth(k) == CHOOSE i \in breaks : Cardinality({m \in breaks : m <= i}) = k
        count == IF n > 0 /\ Ch(s, n) # "\n"
                 THEN Cardinality(breaks) + 1 ELSE Cardinality(breaks)
    IN [k \in 1..count |->
          SubSeq(s, IF k = 1 THEN 1 ELSE nth(k - 1) + 1,
                    IF k <= Cardinality(breaks) THEN nth(k) - 1 ELSE n)]

\* [l.strip() for l in text.splitlines() if l.strip()]
StrippedLines(text) ==
    LET raw == SplitLines(text)
        stripped == [k \in 1..Len(raw) |-> Strip(raw[k])]
        kept(l) == l # ""
    IN SelectSeq(stripped, kept)

\* The first position >= from at which sub occurs in s, or 0.
IndexFrom(s, sub, from) ==
    LET at == {i \in from..(Len(s) - Len(sub) + 1) : LitAt(s, i, sub)}
    IN IF at = {} THEN 0 ELSE MinOf(at)

\* The end (exclusive) of r"(?:Energy\s*efficiency\s*class|Energieeffizienzklasse)"
\* matched at position i of the lower-cased text (re.I), or 0.
EnergyLabelEnd(lo, i) ==
    IF LitAt(lo, i, "energy")
    THEN LET j == SkipWs(lo, i + Len("energy"))
         IN IF LitAt(lo, j, "efficiency")
            THEN LET k == SkipWs(lo, j + Len("efficiency"))
                 IN IF LitAt(lo, k, "class") THEN k + Len("class") ELSE 0
            ELSE 0
    ELSE IF LitAt(lo, i, "energieeffizienzklasse")
         THEN i + Len("energieeffizienzklasse")
         ELSE 0

\* The end (exclusive) of r"(?:\s*[+]){0,3}" matched greedily at position j,
\* n repetitions being matched already.
RECURSIVE PlusesEnd(_, _, _)
PlusesEnd(s, j, n) ==
    LET k == SkipWs(s, j)
    IN IF n < 3 /\ k <= Len(s) /\ Ch(s, k) = "+"
       THEN PlusesEnd(s, k + 1, n + 1) ELSE j

\* group(1) of r"<label>\s*[:\-]?\s*([A-G](?:\s*[+]){0,3})" matched with re.I at
\* position i, or None. Under re.I the class [A-G] takes the letters a-g too.
EnergyInlineAt(text, lo, i) ==
    LET e == EnergyLabelEnd(lo, i)
    IN IF e = 0 THEN None
       ELSE LET a == SkipWs(text, e)
                b == IF a <= Len(text) /\ Ch(text, a) \in {":", "-"}
                     THEN a + 1 ELSE a
                c == SkipWs(text, b)
            IN IF c <= Len(text) /\ Ch(lo, c) \in CharSet("abcdefg")
               THEN SubSeq(text, c, PlusesEnd(text, c + 1, 0) - 1)
               ELSE None

\* str.replace(" ", "")
RECURSIVE RemoveBlanks(_)
RemoveBlanks(s) ==
    IF Len(s) = 0 THEN ""
    ELSE (IF Ch(s, 1) = " " THEN "" ELSE Ch(s, 1))
            \o RemoveBlanks(SubSeq(s, 2, Len(s)))

\* First strategy of _energy: re.search(...).group(1).replace(" ", ""), or None.
EnergyInline(text) ==
    Bind(Lower(text), LAMBDA lo :
      Bind({i \in 1..Len(text) : EnergyInlineAt(text, lo, i) # None}, LAMBDA at :
        IF at = {} THEN None
        ELSE Bind(EnergyInlineAt(text, lo, MinOf(at)), LAMBDA g : RemoveBlanks(g))))

\* re.search(r"[A-G][+]{0,3}", c).group(0), or "".
EnergyValueIn(c) ==
    LET at == {i \in 1..Len(c) : Ch(c, i) \in CharSet("ABCDEFG")}
    IN IF at = {} THEN ""
       ELSE LET i == MinOf(at)
                n == Cardinality({k \in 1..3 :
                        \A m \in 1..k : i + m <= Len(c) /\ Ch(c, i + m) = "+"})
            IN SubSeq(c, i, i + n)

\* _labeled(text, labels, vre): the value after the first label found on a line
\* (labels in order, then lines in order), or the next line when nothing
\* follows the label; useVre stands for vre = r"[A-G][+]{0,3}".
_labeled(text, labels, useVre) ==
    IF text = "" THEN ""
    ELSE Bind(StrippedLines(text), LAMBDA lines :
         Bind([k \in 1..Len(lines) |-> Lower(lines[k])], LAMBDA lls :
         LET rest(k, i) ==
                 SubSeq(lines[i],
                        IndexFrom(lls[i], Lower(labels[k]), 1) + Len(labels[k]),
                        Len(lines[i]))
             \* m.group(1).strip() of rf"{label}\s*[:\-]?\s*(.+)" for a non-empty rest
             value(r) ==
                 LET a == SkipWs(r, 1)
                     b == IF a <= Len(r) /\ Ch(r, a) \in {":", "-"} THEN a + 1 ELSE a
                     c == SkipWs(r, b)
                 IN IF c <= Len(r) THEN SubSeq(r, c, Len(r)) ELSE Ch(r, Len(r))
         IN Bind({p \in (1..Len(labels)) \X (1..Len(lines)) :
                    /\ Contains(lls[p[2]], Lower(labels[p[1]]))
                    /\ (rest(p[1], p[2]) # "" \/ p[2] < Len(lines))}, LAMBDA hits :
            IF hits = {} THEN ""
            ELSE Bind(MinOf({p[1] : p \in hits}), LAMBDA k :
                 Bind(MinOf({p[2] : p \in {q \in hits : q[1] = k}}), LAMBDA i :
                 Bind(IF rest(k, i) # "" THEN value(rest(k, i)) ELSE lines[i + 1], LAMBDA c :
                   IF useVre THEN EnergyValueIn(c) ELSE c))))))

\* re.search(r"\b([A-G])\b", s).group(1), or "".
StandaloneEnergyLetter(s) ==
    LET at == {i \in 1..Len(s) :
                 /\ Ch(s, i) \in CharSet("ABCDEFG")
                 /\ (i = 1 \/ ~IsWordChar(Ch(s, i - 1)))
                 /\ (i = Len(s) \/ ~IsWordChar(Ch(s, i + 1)))}
    IN IF at = {} THEN "" ELSE Ch(s, MinOf(at))

\* Third strategy of _energy: a lone letter on a line that names the energy
\* efficiency, or on the line after it.
EnergyNearLabel(text) ==
    Bind(SplitLines(text), LAMBDA lines :
      LET s(i) == lines[i] \o (IF i < Len(lines) THEN " " \o lines[i + 1] ELSE "")
      IN Bind({i \in 1..Len(lines) :
                 /\ \/ Contains(Lower(lines[i]), "energieeffizienz")
                    \/ Contains(Lower(lines[i]), "energy efficiency")
                 /\ StandaloneEnergyLetter(s(i)) # ""}, LAMBDA at :
           IF at = {} THEN "" ELSE StandaloneEnergyLetter(s(MinOf(at)))))

\* The three strategies of _energy on one page text.
EnergyOfText(text) ==
    Bind(EnergyInline(text), LAMBDA inline :
      IF inline # None THEN inline
      ELSE Bind(_labeled(text, <<"Energy efficiency class", "Energieeffizienzklasse">>, TRUE),
                LAMBDA v : IF v # "" THEN v ELSE EnergyNearLabel(text)))

\* PDFExtractor._energy: the first page, in order, that yields a value.
_energy(pages) ==
    Bind([k \in 1..Len(pages) |-> IF pages[k] = "" THEN "" ELSE EnergyOfText(pages[k])],
         LAMBDA got :
           Bind({k \in 1..Len(pages) : got[k] # ""}, LAMBDA at :
             IF at = {} THEN "" ELSE got[MinOf(at)]))

(***************************************************************************)
(* PDF EXTRACTOR: the supplier                                             *)
(***************************************************************************)
\* str.join with one blank.
RECURSIVE JoinLines(_)
JoinLines(ls) ==
    IF Len(ls) = 0 THEN ""
    ELSE IF Len(ls) = 1 THEN ls[1]
    ELSE ls[1] \o " " \o JoinLines(Tail(ls))

\* [a-z], and with re.I [A-Z] too.
IsAsciiLetter(c, ignoreCase) ==
    c \in CharSet(LowerAZ) \/ (ignoreCase /\ c \in CharSet(UpperAZ))

\* The end (exclusive) of r"(?:\([a-z]\)\s*)*" matched greedily at position j.
RECURSIVE SkipAnnots(_, _, _)
SkipAnnots(s, j, ignoreCase) ==
    IF /\ j + 2 <= Len(s)
       /\ Ch(s, j) = "(" /\ IsAsciiLetter(Ch(s, j + 1), ignoreCase)
       /\ Ch(s, j + 2) = ")"
    THEN SkipAnnots(s, SkipWs(s, j + 3), ignoreCase)
    ELSE j

\* PDFExtractor._heading
_heading(t) ==
    \E h \in {"product information sheet", "produktdatenblatt",
              "additional information", "repairability",
              "angaben zur reparierbarkeit"} : Contains(Lower(t), h)

\* PDFExtractor._annot
_annot(t) ==
    \E st \in {Strip(t)} :
        \/ Len(st) <= 2
        \/ (SkipAnnots(st, 1, TRUE) > Len(st))

\* re.match(r"^\d+\.", line)
StartsNumbered(line) ==
    LET e == RunEnd(line, 1, DigitSet) IN e > 1 /\ e <= Len(line) /\ Ch(line, e) = "."

\* The end (exclusive) of the words of a label matched at position i of the
\* lower-cased text with \s+ between them, or 0.
RECURSIVE WordsEnd(_, _, _, _)
WordsEnd(lo, i, words, k) ==
    IF ~LitAt(lo, i, words[k]) THEN 0
    ELSE LET e == i + Len(words[k])
         IN IF k = Len(words) THEN e
            ELSE IF e <= Len(lo) /\ IsSpace(Ch(lo, e))
                 THEN WordsEnd(lo, SkipWs(lo, e), words, k + 1)
                 ELSE 0

\* PDFExtractor._inline_after for one label: group(1).strip() of
\* rf"{words}\s*(?:\([a-z]\)\s*)*:?\s*(.+)" searched with re.I | re.S. When the
\* greedy prefix takes all the text, the group is what it gives back first.
_inline_after(text, label) ==
    Bind(Lower(text), LAMBDA lo :
    Bind(Split(Lower(label)), LAMBDA words :
    Bind({i \in 1..Len(text) :
            \E w \in {WordsEnd(lo, i, words, 1)} : w # 0 /\ w <= Len(text)}, LAMBDA at :
      IF at = {} THEN ""
      ELSE Bind(WordsEnd(lo, MinOf(at), words, 1), LAMBDA e :
           Bind(SkipAnnots(text, SkipWs(text, e), TRUE), LAMBDA a :
           Bind(SkipWs(text, IF a <= Len(text) /\ Ch(text, a) = ":" THEN a + 1 ELSE a),
                LAMBDA c :
                  LET n == Len(text)
                  IN IF c <= n THEN Strip(SubSeq(text, c, n))
                     ELSE IF IsSpace(Ch(text, n)) THEN ""
                     ELSE IF Ch(text, n) = ":" THEN ":"
                     ELSE SubSeq(text, n - 2, n)))))))

\* The lines lines[from..to] up to the first line whose index is in stopAt
\* (break), the lines whose index is in skipAt left out (continue).
LinesUntil(lines, from, to, stopAt, skipAt) ==
    Bind(stopAt \cap (from..to), LAMBDA brk :
    Bind((from..(IF brk = {} THEN to ELSE MinOf(brk) - 1)) \ skipAt, LAMBDA idx :
      [k \in 1..Cardinality(idx) |->
          lines[CHOOSE j \in idx : Cardinality({m \in idx : m <= j}) = k]]))

\* PDFExtractor._supplier_address_table
_supplier_address_table(text) ==
    Bind(StrippedLines(text), LAMBDA lines :
    Bind([k \in 1..Len(lines) |-> Lower(lines[k])], LAMBDA lls :
    LET n == Len(lines)
        \* the end (exclusive) of r"supplier'?s?\s*address" at position p, or 0
        labelEnd(lo, p) ==
            IF ~LitAt(lo, p, "supplier") THEN 0
            ELSE LET q1 == p + Len("supplier")
                     q2 == IF LitAt(lo, q1, "'") THEN q1 + 1 ELSE q1
                     q3 == IF LitAt(lo, q2, "s") THEN q2 + 1 ELSE q2
                     q4 == SkipWs(lo, q3)
                 IN IF LitAt(lo, q4, "address") THEN q4 + Len("address") ELSE 0
        \* group(1).strip() of the search in a line, or "" when there is no match
        inlineValue(i) ==
            Bind({p \in 1..Len(lines[i]) :
                    labelEnd(lls[i], p) # 0 /\ labelEnd(lls[i], p) <= Len(lines[i])},
                 LAMBDA at :
                   IF at = {} THEN ""
                   ELSE Bind(SkipAnnots(lines[i], SkipWs(lines[i], labelEnd(lls[i], MinOf(at))),
                                        TRUE),
                             LAMBDA c :
                               IF c <= Len(lines[i]) THEN SubSeq(lines[i], c, Len(lines[i]))
                               ELSE SubSeq(lines[i], Len(lines[i]) - 2, Len(lines[i]))))
        inlineOk(i) ==
            \E val \in {inlineValue(i)} : Len(val) > 5 /\ Ch(val, 1) # "("
        stop1(l) == _heading(l) \/ Ch(l, 1) = "(" \/ Len(l) < 3
        stop2(l) ==
            \/ _heading(l)
            \/ /\ Len(l) >= 4 /\ Ch(l, 1) = "(" /\ IsAsciiLetter(Ch(l, 2), FALSE)
               /\ Ch(l, 3) = ")" /\ IsSpace(Ch(l, 4))
        to(i) == IF i + 4 < n THEN i + 4 ELSE n
        below(i) == LinesUntil(lines, i + 1, to(i), {j \in 1..n : stop2(lines[j])},
                               {j \in 1..n : _annot(lines[j])})
    IN Bind({i \in 1..n :
               /\ Contains(lls[i], "supplier") /\ Contains(lls[i], "address")
               /\ (inlineOk(i) \/ Len(below(i)) > 0)}, LAMBDA hits :
         IF hits = {} THEN ""
         ELSE Bind(MinOf(hits), LAMBDA i :
                IF inlineOk(i)
                THEN JoinLines(<<inlineValue(i)>>
                               \o LinesUntil(lines, i + 1, to(i),
                                             {j \in 1..n : stop1(lines[j])}, {}))
                ELSE JoinLines(below(i))))))

\* PDFExtractor._block_after: the lines after the first label line (labels in
\* order, then lines in order) that has any.
_block_after(text, labels, ml) ==
    Bind(StrippedLines(text), LAMBDA lines :
    Bind([k \in 1..Len(lines) |-> Lower(lines[k])], LAMBDA lls :
    LET n == Len(lines)
        stop(l) == StartsNumbered(l) \/ Ch(l, 1) = "(" \/ _heading(l)
        block(i) == LinesUntil(lines, i + 1, IF i + ml < n THEN i + ml ELSE n,
                               {j \in 1..n : stop(lines[j])},
                               {j \in 1..n : _annot(lines[j])})
    IN Bind({p \in (1..Len(labels)) \X (1..n) :
               Contains(lls[p[2]], Lower(labels[p[1]])) /\ Len(block(p[2])) > 0},
            LAMBDA hits :
              IF hits = {} THEN ""
              ELSE Bind(MinOf({p[1] : p \in hits}), LAMBDA k :
                     JoinLines(block(MinOf({p[2] : p \in {q \in hits : q[1] = k}})))))))

\* PDFExtractor._block_after_phrases: _block_after without the break at a line
\* that is one "(x)", which the break at a leading "(" covers.
_block_after_phrases(text, phrases, ml) == _block_after(text, phrases, ml)

\* PDFExtractor._block_before: the lines before the first label line that has
\* any, in their order in the text.
_block_before(text, labels, ml) ==
    Bind(StrippedLines(text), LAMBDA lines :
    Bind([k \in 1..Len(lines) |-> Lower(lines[k])], LAMBDA lls :
    LET n == Len(lines)
        stop(l) == StartsNumbered(l) \/ _heading(l)
        keep(l) == ~_annot(l)
        block(i) ==
            Bind(IF i - ml > 1 THEN i - ml ELSE 1, LAMBDA lo :
            Bind({j \in lo..(i - 1) : stop(lines[j])}, LAMBDA brk :
              SelectSeq(SubSeq(lines,
                               IF brk = {} THEN lo
                               ELSE (CHOOSE j \in brk : \A m \in brk : m <= j) + 1,
                               i - 1), keep)))
    IN Bind({p \in (1..Len(labels)) \X (1..n) :
               Contains(lls[p[2]], Lower(labels[p[1]])) /\ Len(block(p[2])) > 0},
            LAMBDA hits :
              IF hits = {} THEN ""
              ELSE Bind(MinOf({p[1] : p \in hits}), LAMBDA k :
                     JoinLines(block(MinOf({p[2] : p \in {q \in hits : q[1] = k}})))))))

\* The filter without its two length conditions: only the markers are tested.
ValidSupplierAnyLength(v) ==
    \A g \in {"steuern", "weitere angaben", "self-repair", "spare-parts",
               "search-detail"} : ~Contains(Lower(v), g)

\* PDFExtractor._valid_supplier
_valid_supplier(v) ==
    /\ Len(Strip(v)) >= 5
    /\ \A g \in {"steuern", "weitere angaben", "self-repair", "spare-parts",
                 "search-detail"} : ~Contains(Lower(v), g)
    /\ Cardinality({i \in 1..Len(v) : Ch(v, i) \in NormLetterSet \cup UpperSet}) >= 5

\* re.sub(r"(left)(right)", r"\1 \2", s): a blank between every character of
\* left and a character of right that follows it.
RECURSIVE SplitPairsFrom(_, _, _, _)
SplitPairsFrom(s, i, left, right) ==
    IF i > Len(s) THEN ""
    ELSE IF i < Len(s) /\ Ch(s, i) \in left /\ Ch(s, i + 1) \in right
         THEN Ch(s, i) \o " " \o SplitPairsFrom(s, i + 1, left, right)
         ELSE Ch(s, i) \o SplitPairsFrom(s, i + 1, left, right)

\* re.sub(r"https?://\S+", "", s)
RECURSIVE RemoveUrls(_)
RemoveUrls(s) ==
    LET urlEnd(p) ==
            IF ~LitAt(s, p, "http") THEN 0
            ELSE LET q == IF LitAt(s, p + 4, "s") THEN p + 5 ELSE p + 4
                 IN IF LitAt(s, q, "://") /\ q + 3 <= Len(s) /\ ~IsSpace(Ch(s, q + 3))
                    THEN RunEnd(s, q + 3, {Ch(s, j) : j \in 1..Len(s)} \ {" ", "\n", "\t", "\r"})
                    ELSE 0
    IN Bind({p \in 1..Len(s) : urlEnd(p) # 0}, LAMBDA at :
         IF at = {} THEN s
         ELSE Bind(MinOf(at), LAMBDA p :
              Bind(SubSeq(s, urlEnd(p), Len(s)), LAMBDA rest :
                SubSeq(s, 1, p - 1) \o RemoveUrls(rest))))

\* re.sub(r"\s+", " ", s)
RECURSIVE CollapseWs(_)
CollapseWs(s) ==
    IF Len(s) = 0 THEN ""
    ELSE IF IsSpace(Ch(s, 1))
         THEN " " \o CollapseWs(SubSeq(s, SkipWs(s, 1), Len(s)))
         ELSE Ch(s, 1) \o CollapseWs(SubSeq(s, 2, Len(s)))

\* \b at position p of s
WordBoundary(s, p) ==
    (p > 1 /\ IsWordChar(Ch(s, p - 1))) # (p <= Len(s) /\ IsWordChar(Ch(s, p)))

\* The end (exclusive) of the label of one of the "<label>.*$" substitutions
\* of _clean_supplier matched at position p of s (lo is s.lower()), or 0.
CleanLabelEnd(label, s, lo, p) ==
    IF ~WordBoundary(s, p) THEN 0
    ELSE IF label = "address"
         THEN (IF ~LitAt(lo, p, "supplier") THEN 0
               ELSE LET q1 == SkipWs(s, p + Len("supplier"))
                        q2 == IF LitAt(lo, q1, "'") THEN q1 + 1 ELSE q1
                        q3 == IF LitAt(lo, q2, "s") THEN q2 + 1 ELSE q2
                        q4 == SkipWs(s, q3)
                    IN IF LitAt(lo, q4, "address") THEN q4 + Len("address") ELSE 0)
    ELSE IF label = "anschrift"
         THEN (IF LitAt(lo, p, "anschrift des lieferanten")
               THEN p + Len("anschrift des lieferanten") ELSE 0)
    ELSE IF LitAt(lo, p, label) /\ WordBoundary(s, p + Len(label))
         THEN p + Len(label) ELSE 0

\* re.sub(r"<label>.*$", "", s, flags=re.I): the text from the first match of
\* the label that has no line break after it (but a final one) is removed.
CutFromLabel(s, label) ==
    Bind(Lower(s), LAMBDA lo :
    Bind({p \in 1..Len(s) :
            \E e \in {CleanLabelEnd(label, s, lo, p)} :
                e # 0 /\ \A j \in e..(Len(s) - 1) : Ch(s, j) # "\n"}, LAMBDA at :
      IF at = {} THEN s
      ELSE SubSeq(s, 1, MinOf(at) - 1) \o (IF Ch(s, Len(s)) = "\n" THEN "\n" ELSE "")))

\* One statement of PDFExtractor._clean_supplier, applied to the value t of
\* the statements before it. The alphabet has no typographic apostrophe, so
\* the replace of the first statement has nothing to replace.
CleanStep(k, t) ==
    LET sub(from) == SubSeq(t, from, Len(t))
        ascii == CharSet(LowerAZ) \cup CharSet(UpperAZ)
        before(mk) ==
            Bind(IndexFrom(Lower(t), mk, 1), LAMBDA i :
              IF i = 0 THEN t ELSE Strip(SubSeq(t, 1, i - 1)))
    IN CASE k = 1 -> Strip(t)
         [] k = 2 -> sub(SkipAnnots(t, 1, TRUE))
         [] k = 3 ->
              Bind(Lower(t), LAMBDA lo :
              Bind(IF LitAt(lo, 1, "supplier information")
                   THEN Len("supplier information") + 1
                   ELSE IF LitAt(lo, 1, "lieferanteninformation")
                   THEN Len("lieferanteninformation") + 1
                   ELSE IF LitAt(lo, 1, "anschrift des lieferanten")
                   THEN Len("anschrift des lieferanten") + 1
                   ELSE IF LitAt(lo, 1, "supplier")
                   THEN LET q1 == Len("supplier") + 1
                            q2 == IF LitAt(lo, q1, "'") THEN q1 + 1 ELSE q1
                            q3 == IF LitAt(lo, q2, "s") THEN q2 + 1 ELSE q2
                        IN IF LitAt(lo, q3, " address") THEN q3 + Len(" address") ELSE 0
                   ELSE 0, LAMBDA headEnd :
                IF headEnd = 0 THEN t ELSE sub(SkipWs(t, headEnd))))
         [] k = 4 -> CutFromLabel(t, "address")
         [] k = 5 -> CutFromLabel(t, "anschrift")
         [] k = 6 ->
              Bind({p \in 1..Len(t) :
                      \E a \in {SkipWs(t, p)} :
                          \E e \in {SkipAnnots(t, a, TRUE)} : e > a /\ e > Len(t)},
                   LAMBDA at : IF at = {} THEN t ELSE SubSeq(t, 1, MinOf(at) - 1))
         [] k = 7 -> before("produktdatenblatt")
         [] k = 8 -> before("product information sheet")
         [] k = 9 -> before("additional information")
         [] k = 10 -> before("angaben zur reparierbarkeit")
         [] k = 11 ->
              \* r"\d{1,2}\.\s+.+$" removed, then strip()
              LET n == Len(t)
                  m == IF n > 0 /\ Ch(t, n) = "\n" THEN n - 1 ELSE n
                  numbered(p) ==
                      /\ IsDigit(Ch(t, p))
                      /\ \E q \in {IF LitAt(t, p + 1, ".") THEN p + 2
                                   ELSE IF p < n /\ IsDigit(Ch(t, p + 1)) /\ LitAt(t, p + 2, ".")
                                   THEN p + 3 ELSE 0} :
                            /\ q # 0 /\ q <= n /\ IsSpace(Ch(t, q))
                            /\ \E r \in {IF SkipWs(t, q) < m THEN SkipWs(t, q) ELSE m} :
                                  r >= q + 1 /\ \A j \in r..m : Ch(t, j) # "\n"
              IN Bind({p \in 1..n : numbered(p)}, LAMBDA at :
                   Strip(IF at = {} THEN t ELSE SubSeq(t, 1, MinOf(at) - 1)))
         [] k = 12 -> SplitPairsFrom(t, 1, CharSet(LowerAZ), CharSet(UpperAZ))
         [] k = 13 -> SplitPairsFrom(t, 1, ascii, DigitSet)
         [] k = 14 -> SplitPairsFrom(t, 1, DigitSet, ascii)
         [] k = 15 -> RemoveUrls(t)
         [] k = 16 -> CutFromLabel(t, "steuern")
         [] k = 17 -> CutFromLabel(t, "weitere angaben")
         [] k = 18 -> Strip(CollapseWs(t))

\* The statements k, k + 1, ... of _clean_supplier applied in turn.
RECURSIVE CleanFrom(_, _)
CleanFrom(k, t) ==
    IF k > 18 THEN t ELSE Bind(CleanStep(k, t), LAMBDA u : CleanFrom(k + 1, u))

\* PDFExtractor._clean_supplier
_clean_supplier(v) == CleanFrom(1, v)

\* The values of the six methods of PDFExtractor._supplier for one page text,
\* in their order.
SupplierStrategies(text) ==
    LET la == <<"Supplier information", "Lieferanteninformation",
                "Anschrift des Lieferanten", "Supplier's address", "Supplier address">>
        lb == <<"Supplier's address", "Supplier address", "Lieferant", "Supplier">>
    IN << _inline_after(text, "Anschrift des Lieferanten"),
          _supplier_address_table(text),
          _block_after(text, la, 5),
          _block_after_phrases(text,
              <<"Minimum duration of the guarantee offered by the supplier",
                "Mindestdauer der vom Lieferanten angebotenen Garantie">>, 5),
          _block_before(text, lb, 4),
          _labeled(text, la \o lb, FALSE) >>

\* The loop over the methods for one page text: the cleaned value of the first
\* strategy whose value is non-empty and valid (it may be empty after the
\* cleanup), None when no strategy has one.
SupplierOfText(text) ==
    Bind(SupplierStrategies(text), LAMBDA vals :
      Bind({k \in 1..Len(vals) : _valid_supplier(vals[k])}, LAMBDA ok :
        IF ok = {} THEN None ELSE _clean_supplier(vals[MinOf(ok)])))

\* PDFExtractor._supplier: the first page text with a valid value.
_supplier(pages) ==
    Bind([k \in 1..Len(pages) |->
            IF pages[k] = "" THEN None ELSE SupplierOfText(pages[k])], LAMBDA got :
      Bind({k \in 1..Len(pages) : got[k] # None}, LAMBDA at :
        IF at = {} THEN "" ELSE got[MinOf(at)]))

(***************************************************************************)
(* QueryInfo.from_query on the queries of the foldable Samsung phones     *)
(***************************************************************************)
\* The queries "<brand> Galaxy [Z] Flip|Fold<digits>" in several spellings, with
\* the digits glued to the word or after a blank.
InitParse ==
    /\ mode = "parse"
    /\ \E b \in {"Samsung", "samsung", "SAMSUNG"}, z \in {"", "Z ", "z "},
          w \in {"Flip", "Fold", "flip", "FOLD"}, gap \in {"", " "},
          d \in {"7", "6", "25", "123"} :
          /\ pQuery = b \o " Galaxy " \o z \o w \o gap \o d
          /\ pShape = [z |-> z, word |-> Lower(w), gap |-> gap, digits |-> d,
                       suffix |-> ""]
    /\ pInfo = Unparsed
    /\ IdleNorm /\ IdleScore /\ IdleRun /\ IdlePdf /\ IdlePopup

\* One more word at the end of the query, before it is parsed: storage, network,
\* category, or a variant word.
QueryAppend ==
    /\ mode = "parse"
    /\ pInfo = Unparsed
    /\ pShape.suffix = ""
    /\ \E w \in {"256GB", "5G", "Smartphone", "FE"} :
          /\ pQuery' = pQuery \o " " \o w
          /\ pShape' = [pShape EXCEPT !.suffix = w]
    /\ UNCHANGED <<mode, normVars, scoreVars, pInfo, runVars, pdfVars, popVars>>

\* qi = QueryInfo.from_query(query)
ParseQuery ==
    /\ mode = "parse"
    /\ pInfo = Unparsed
    /\ pInfo' = from_query(pQuery)
    /\ UNCHANGED <<mode, normVars, scoreVars, pQuery, pShape, runVars, pdfVars, popVars>>

NextParse == QueryAppend \/ ParseQuery

SpecParse == InitParse /\ [][NextParse]_vars

(***************************************************************************)
(* QueryInfo.from_query on queries of the catalog's brands                 *)
(***************************************************************************)
MaxQueryWords == 3

\* Words of the queries: brand names, product lines, model numbers and names,
\* variant words.
QueryWords ==
    {"Apple", "iPhone", "17", "Galaxy", "S25", "Pixel", "Sony", "Xperia", "Pro",
     "Motorola", "Moto", "Edge", "50", "Nothing", "Phone", "100"}

\* A line of the input file: load_queries keeps the non-empty ones.
InitQuery ==
    /\ mode = "query"
    /\ pQuery \in QueryWords
    /\ pShape = <<>>
    /\ pInfo = Unparsed
    /\ IdleNorm /\ IdleScore /\ IdleRun /\ IdlePdf /\ IdlePopup

\* One more word at the end of the query, before it is parsed.
QueryWordAppend ==
    /\ mode = "query"
    /\ pInfo = Unparsed
    /\ Len(Split(pQuery)) < MaxQueryWords
    /\ \E w \in QueryWords : pQuery' = pQuery \o " " \o w
    /\ UNCHANGED <<mode, normVars, scoreVars, pShape, pInfo, runVars, pdfVars, popVars>>

\* qi = QueryInfo.from_query(query), for a query of any brand.
QueryParse ==
    /\ mode = "query"
    /\ pInfo = Unparsed
    /\ pInfo' = from_query(pQuery)
    /\ UNCHANGED <<mode, normVars, scoreVars, pQuery, pShape, runVars, pdfVars, popVars>>

NextQuery == QueryWordAppend \/ QueryParse

SpecQuery == InitQuery /\ [][NextQuery]_vars

\* The parsed query has no variant word.
NoVariantWord == \A k \in 1..Len(VARIANT_TOKENS) : Lower(pShape.suffix) # VARIANT_TOKENS[k]

\* C17 as stated: a query "<brand> Galaxy [Z] Flip|Fold<digits>" parses to brand
\* samsung, product line galaxy, the flip/fold word as sub-family, the digits
\* after it as model number, and no variant tokens when it has no variant word.
FoldableQueryParsedAllDigits ==
    pInfo # Unparsed =>
        /\ pInfo.brand = "samsung"
        /\ pInfo.product_line = "galaxy"
        /\ pInfo.samsung_sub = pShape.word
        /\ pInfo.model_number = pShape.digits
        /\ NoVariantWord => pInfo.variant_tokens = <<>>

\* C17: a query "<brand> Galaxy [Z] Flip|Fold<digits>" parses to brand samsung,
\* product line galaxy, the flip/fold word as sub-family, the first two of the
\* digits after it (the digit, when there is one) as model number, and no
\* variant tokens when it has no variant word.
FoldableQueryParsed ==
    pInfo # Unparsed =>
        /\ pInfo.brand = "samsung"
        /\ pInfo.product_line = "galaxy"
        /\ pInfo.samsung_sub = pShape.word
        /\ pInfo.model_number =
              (IF Len(pShape.digits) > 2 THEN SubSeq(pShape.digits, 1, 2)
               ELSE pShape.digits)
        /\ NoVariantWord => pInfo.variant_tokens = <<>>

\* "Samsung Galaxy Z Flip7", parsed.
FoldableQueryParsedWitness ==
    /\ pQuery = "Samsung Galaxy Z Flip7"
    /\ pInfo # Unparsed
    /\ pInfo.samsung_sub = "flip"
    /\ pInfo.model_number = "7"
    /\ pInfo.variant_tokens = <<>>

(***************************************************************************)
(* MULTI-PASS PRODUCT FINDING and the batch loop                           *)
(***************************************************************************)
\* range(10) of _find_with_passes
MaxRounds == 10

\* The score thresholds of the strict, relaxed and brand-only passes.
StrictMin == 30

RelaxedMin == 15

BrandOnlyMin == 5

\* The loop runs one round too few.
LoopContinuesOneShort(attempt) == attempt < MaxRounds - 1

\* The loop runs one round too many.
LoopContinuesOffByOne(attempt) == attempt <= MaxRounds

\* for scroll_attempt in range(10)
LoopContinues(attempt) == attempt < MaxRounds

\* The comparison of the strict filter is inverted.
IsStrictInverted(s) == s.score <= StrictMin /\ s.model_ok

\* s[0] >= 30 and s[3]
IsStrict(s) == s.score >= StrictMin /\ s.model_ok

\* s[0] >= 15 and s[3]
IsRelaxed(s) == s.score >= RelaxedMin /\ s.model_ok

\* The brand-only filter on the score alone.
IsBrandOnlyIgnoringModel(s) == s.score >= BrandOnlyMin

\* s[0] >= 5 and s[3]
IsBrandOnly(s) == s.score >= BrandOnlyMin /\ s.model_ok

\* The sort key with the score ascending.
KeyLessScoreAscending(a, b) ==
    a.score < b.score \/ (a.score = b.score /\ a.idx < b.idx)

\* The sort key with the position descending.
KeyLessIdxDescending(a, b) ==
    a.score > b.score \/ (a.score = b.score /\ a.idx > b.idx)

\* key=lambda x: (-x[0], x[1]): a sorts strictly before b.
KeyLess(a, b) == a.score > b.score \/ (a.score = b.score /\ a.idx < b.idx)

\* x put into a sorted list after the elements that do not sort after it.
RECURSIVE InsertSorted(_, _)
InsertSorted(x, sorted) ==
    IF sorted = <<>> THEN <<x>>
    ELSE IF KeyLess(x, Head(sorted)) THEN <<x>> \o sorted
    ELSE <<Head(sorted)>> \o InsertSorted(x, Tail(sorted))

\* list.sort(key=...): stable.
RECURSIVE SortCandidates(_)
SortCandidates(seq) ==
    IF seq = <<>> THEN <<>>
    ELSE InsertSorted(seq[Len(seq)], SortCandidates(SubSeq(seq, 1, Len(seq) - 1)))

(***************************************************************************)
(* The batch: the queries, the cards the listing page can show, and what   *)
(* the product page yields.                                                *)
(***************************************************************************)
MaxQueries == 2

MaxCards == 2

MaxPool == 2

RunQueries == {"Apple iPhone 17 Pro Max Smartphone 5G", "Pixel"}

\* The cards of the listing page, [text, title, link].
Cards ==
    {[text |-> "Apple iPhone 17 Pro Max Smartphone 5G", title |-> "", link |-> "/p/1"],
     [text |-> "Apple iPhone 17 Pro Max", title |-> "", link |-> "/p/6"],
     [text |-> "Apple 5G iPhone Pro Max Smartphone", title |-> "", link |-> "/p/2"],
     [text |-> "iPhone 17 Pro", title |-> "", link |-> "/p/3"],
     [text |-> "Apple iPhone 17", title |-> "", link |-> "/p/4"],
     [text |-> "iPhone 17 Pro Max Hülle", title |-> "", link |-> "/p/5"],
     [text |-> "iPhone", title |-> "", link |-> "/p/7"]}

\* What _get_cards can return: every list of at most MaxCards cards.
Listings == UNION {[1..n -> Cards] : n \in 0..MaxCards}

\* _evaluate_card of every card for every query (at position 0).
RunEvaluation ==
    [q \in RunQueries |-> [c \in Cards |-> _evaluate_card(c, 0, from_query(q))]]

\* self._evaluate_card(card, idx, qi)
EvaluateAt(card, idx, q) ==
    LET r == evaluation[q][card]
    IN IF r = NoCandidate THEN r ELSE [r EXCEPT !.idx = idx]

\* for idx, card in enumerate(cards): the scored candidates of one listing, in
\* order (idx is 0-based).
ScoredOf(cards, q) ==
    LET all == [k \in 1..Len(cards) |-> EvaluateAt(cards[k], k - 1, q)]
        kept(r) == r # NoCandidate
    IN SelectSeq(all, kept)

\* The pool rebuilt from the cards of the round alone.
ExtendReplacing(pool, scored) == scored

\* all_scored.append(scored), for every scored card of the round.
Extend(pool, scored) == pool \o scored

\* The row of a failed query with the query string blanked as well.
EmptyRowAllBlank(q) ==
    [input_ean |-> "", product_url |-> "", pdf_link |-> "",
     energy_efficiency_class |-> "", energylevel_link |-> "",
     supplier_information |-> ""]

\* The row Scraper.run records for a query whose scrape returned None.
EmptyRow(q) ==
    [input_ean |-> q, product_url |-> "", pdf_link |-> "",
     energy_efficiency_class |-> "", energylevel_link |-> "",
     supplier_information |-> ""]

\* The value returned as it is, an empty one included.
OrNotFoundKeepsEmpty(x) == x

\* Python's `x if x else "Not found"`.
OrNotFound(x) == IF x = "" THEN "Not found" ELSE x

InitRun ==
    /\ mode = "run"
    /\ queries \in UNION {[1..n -> RunQueries] : n \in 1..MaxQueries}
    /\ evaluation = RunEvaluation
    /\ qi = 1
    /\ pc = "search"
    /\ mstate = "IDLE"
    /\ all_scored = <<>> /\ scroll_attempt = 0 /\ requests = 0
    /\ best = NoCandidate /\ tier = "" /\ click = "" /\ found = FALSE
    /\ results = <<>>
    /\ IdleNorm /\ IdleScore /\ IdleParse /\ IdlePdf /\ IdlePopup

\* Scraper.run: results.append(row), then the next query, if any.
RecordRow(row) ==
    /\ results' = Append(results, row)
    /\ qi' = qi + 1
    /\ pc' = IF qi = Len(queries) THEN "done" ELSE "search"

\* scrape: nav.search_product(query) and the start of find_product. The search
\* raises (scrape returns None), or lands on a product page (find_product
\* returns True at once), or shows the result list (the matcher starts).
SearchProduct ==
    /\ mode = "run"
    /\ pc = "search"
    /\ all_scored' = <<>> /\ scroll_attempt' = 0 /\ requests' = 0
    /\ best' = NoCandidate /\ tier' = "" /\ click' = ""
    /\ \/ /\ found' = FALSE /\ mstate' = "IDLE"
          /\ RecordRow(EmptyRow(queries[qi]))
       \/ /\ found' = TRUE /\ mstate' = "IDLE" /\ pc' = "fields"
          /\ UNCHANGED <<qi, results>>
       \/ /\ found' = FALSE /\ mstate' = "COLLECTING" /\ pc' = "find"
          /\ UNCHANGED <<qi, results>>
    /\ UNCHANGED <<mode, normVars, scoreVars, parseVars, pdfVars, popVars, queries, evaluation>>

\* The click with a failure handed on to the last tier instead of ending the
\* match.
ClickCandidateFallsThrough(cand, t) ==
    /\ best' = cand
    /\ tier' = t
    /\ \E ok \in BOOLEAN :
          /\ click' = IF ok THEN "ok" ELSE "failed"
          /\ found' = ok
          /\ IF ok THEN mstate' = "MATCHED" /\ pc' = "fields" /\ UNCHANGED <<qi, results>>
             ELSE IF t = "brand_only"
                  THEN mstate' = "FAILED" /\ RecordRow(EmptyRow(queries[qi]))
                  ELSE mstate' = "BRAND_ONLY_CHECK" /\ UNCHANGED <<pc, qi, results>>

\* return self._click_candidate(best): the click succeeds or raises; find_product
\* returns the outcome, and scrape returns None when it is False.
ClickCandidate(cand, t) ==
    /\ best' = cand
    /\ tier' = t
    /\ \E ok \in BOOLEAN :
          /\ click' = IF ok THEN "ok" ELSE "failed"
          /\ found' = ok
          /\ mstate' = IF ok THEN "MATCHED" ELSE "FAILED"
          /\ IF ok THEN pc' = "fields" /\ UNCHANGED <<qi, results>>
             ELSE RecordRow(EmptyRow(queries[qi]))

\* The end of one round that selected nothing: scroll, and leave the loop after
\* the last round.
NextRound ==
    /\ scroll_attempt' = scroll_attempt + 1
    /\ mstate' = IF LoopContinues(scroll_attempt + 1) THEN "COLLECTING"
                 ELSE "RELAXED_CHECK"
    /\ UNCHANGED <<best, tier, click, found, pc, qi, results>>

\* One round of _find_with_passes: _get_cards raises (the exception leaves
\* find_product and scrape returns None), or returns no card, or returns cards
\* that are scored and pooled, after which the strict check runs.
CollectRound ==
    /\ mode = "run"
    /\ pc = "find"
    /\ mstate = "COLLECTING"
    /\ LoopContinues(scroll_attempt)
    /\ requests' = requests + 1
    /\ \/ /\ mstate' = "ABORTED"
          /\ RecordRow(EmptyRow(queries[qi]))
          /\ UNCHANGED <<all_scored, scroll_attempt, best, tier, click, found>>
       \/ \E cards \in Listings :
             LET pool == Extend(all_scored, ScoredOf(cards, queries[qi]))
                 strict == SelectSeq(pool, IsStrict)
             IN /\ Len(pool) <= MaxPool
                /\ IF cards = <<>>
                   THEN UNCHANGED all_scored /\ NextRound
                   ELSE /\ all_scored' = pool
                        /\ IF strict # <<>>
                           THEN /\ ClickCandidate(SortCandidates(strict)[1], "strict")
                                /\ UNCHANGED scroll_attempt
                           ELSE NextRound
    /\ UNCHANGED <<mode, normVars, scoreVars, parseVars, pdfVars, popVars, queries, evaluation>>

\* No strict match found: the relaxed pass over the whole pool.
RelaxedCheck ==
    /\ mode = "run"
    /\ pc = "find"
    /\ mstate = "RELAXED_CHECK"
    /\ LET relaxed == SelectSeq(all_scored, IsRelaxed)
       IN IF relaxed # <<>>
          THEN ClickCandidate(SortCandidates(relaxed)[1], "relaxed")
          ELSE /\ mstate' = "BRAND_ONLY_CHECK"
               /\ UNCHANGED <<best, tier, click, found, pc, qi, results>>
    /\ UNCHANGED <<mode, normVars, scoreVars, parseVars, pdfVars, popVars, queries, evaluation, all_scored,
                   scroll_attempt, requests>>

\* Last resort: the brand-only pass; with no candidate find_product returns
\* False and scrape returns None.
BrandOnlyCheck ==
    /\ mode = "run"
    /\ pc = "find"
    /\ mstate = "BRAND_ONLY_CHECK"
    /\ LET brand_only == SelectSeq(all_scored, IsBrandOnly)
       IN IF brand_only # <<>>
          THEN ClickCandidate(SortCandidates(brand_only)[1], "brand_only")
          ELSE /\ mstate' = "FAILED"
               /\ found' = FALSE
               /\ RecordRow(EmptyRow(queries[qi]))
               /\ UNCHANGED <<best, tier, click>>
    /\ UNCHANGED <<mode, normVars, scoreVars, parseVars, pdfVars, popVars, queries, evaluation, all_scored,
                   scroll_attempt, requests>>

\* What the product page and the PDF can yield: get_energy_class_from_page,
\* get_energy_image_link, get_supplier_from_page, get_pdf_link, and the
\* supplier found in the PDF's pages ("" when none is).
PageEnergy == {"", "A"}

PageEnergyImage == {"Not found", "https://i.otto.de/eek.png"}

PopupSupplier == {"", "Apple Distribution International"}

PdfLinks == {"Not found", "https://www.otto.de/datasheet.pdf"}

PdfSupplier == {"", "Apple Inc"}

ProductUrl == "https://www.otto.de/p/product"

\* PDFExtractor.extract_fields within a batch run, the supplier of the
\* returned pair: pages_supplier is what the extraction finds in the document
\* ("" when the fetch or the brand validation fails, or nothing is found).
extract_fields(pdf_url, pages_supplier) ==
    IF pdf_url = "" \/ pdf_url = "Not found" THEN "Not found"
    ELSE OrNotFound(pages_supplier)

\* The ProductData with the supplier blanked as well when the energy class is
\* not reported.
ProductDataSupplierNeedsEnergy(query, energy, energy_img, supplier, pdf, pdf_supplier) ==
    LET energy2 == IF energy_img = "" \/ energy_img = "Not found"
                   THEN "" ELSE energy
        supplier2 == IF supplier = "" /\ pdf_supplier # ""
                        /\ pdf_supplier # "Not found"
                     THEN pdf_supplier ELSE supplier
        supplier3 == IF energy2 = "" THEN "" ELSE supplier2
    IN [input_ean |-> query, product_url |-> ProductUrl, pdf_link |-> pdf,
        energy_efficiency_class |-> OrNotFound(energy2),
        energylevel_link |-> OrNotFound(energy_img),
        supplier_information |-> OrNotFound(supplier3)]

\* scrape after find_product returned True: the fields are read from the
\* product page and the PDF and the ProductData is built.
ProductData(query, energy, energy_img, supplier, pdf, pdf_supplier) ==
    LET energy2 == IF energy_img = "" \/ energy_img = "Not found"
                   THEN "" ELSE energy
        supplier2 == IF supplier = "" /\ pdf_supplier # ""
                        /\ pdf_supplier # "Not found"
                     THEN pdf_supplier ELSE supplier
    IN [input_ean |-> query, product_url |-> ProductUrl, pdf_link |-> pdf,
        energy_efficiency_class |-> OrNotFound(energy2),
        energylevel_link |-> OrNotFound(energy_img),
        supplier_information |-> OrNotFound(supplier2)]

\* scrape, from url = nav.page.url on: an exception on the way makes scrape
\* return None (the empty row), otherwise the ProductData becomes the row.
ExtractFields ==
    /\ mode = "run"
    /\ pc = "fields"
    /\ \/ RecordRow(EmptyRow(queries[qi]))
       \/ \E energy \in PageEnergy, energy_img \in PageEnergyImage,
             supplier \in PopupSupplier, pdf \in PdfLinks,
             pages_supplier \in PdfSupplier :
             RecordRow(ProductData(queries[qi], energy, energy_img, supplier,
                                   pdf, extract_fields(pdf, pages_supplier)))
    /\ UNCHANGED <<mode, normVars, scoreVars, parseVars, pdfVars, popVars, queries, evaluation, mstate,
                   all_scored, scroll_attempt, requests, best, tier, click, found>>

Next == SearchProduct \/ CollectRound \/ RelaxedCheck \/ BrandOnlyCheck \/ ExtractFields

Spec == InitRun /\ [][Next]_vars

\* The program is sequential: whenever it has a next step it takes it.
FairSpec == Spec /\ WF_vars(Next)


(***************************************************************************)
(* FIELD EXTRACTION: PDFExtractor.extract_fields and the end of scrape on   *)
(* one product page                                                        *)
(***************************************************************************)
\* Config.OCR_ENABLED
OCR_ENABLED == TRUE

\* tokens = [expected_brand] + BRAND_FAMILIES[expected_brand]["product_lines"]
BrandTokens(expected_brand) ==
    IF expected_brand \in DOMAIN ProductLines
    THEN <<expected_brand>> \o ProductLines[expected_brand]
    ELSE <<expected_brand>>

\* Brand validation passes: `if expected_brand and pages:` does not hold, or
\* a token occurs in " ".join(pages).lower().
BrandValidated(expected_brand, pages) ==
    \/ expected_brand = None
    \/ pages = <<>>
    \/ LET full == Lower(JoinLines(pages))
           tokens == BrandTokens(expected_brand)
       IN \E k \in 1..Len(tokens) : Contains(full, tokens[k])

\* energy from the scan of all pages, then from page 6 if that found nothing.
ScanEnergyAllPagesFirst(pages) ==
    LET first == _energy(pages)
    IN IF first # "" \/ Len(pages) < 6 THEN first ELSE _energy(<<pages[6]>>)

\* energy after the page-text scan: page 6 alone first, then all pages.
ScanEnergy(pages) ==
    LET first == IF Len(pages) >= 6 THEN _energy(<<pages[6]>>) ELSE ""
    IN IF first # "" THEN first ELSE _energy(pages)

\* supplier after the page-text scan: page 25 alone first, then all pages.
ScanSupplier(pages) ==
    LET first == IF Len(pages) >= 25 THEN _supplier(<<pages[25]>>) ELSE ""
    IN IF first # "" THEN first ELSE _supplier(pages)

\* OCR requested only when both fields are unresolved.
NeedsOcrBothMissing(energy, supplier) ==
    OCR_ENABLED /\ energy = "" /\ supplier = ""

\* if self.config.OCR_ENABLED and (not energy or not supplier)
NeedsOcr(energy, supplier) == OCR_ENABLED /\ (energy = "" \/ supplier = "")

\* The queries of the extraction, one per outcome of _detect_brand.
PdfQueries == {"iPhone 17 Pro", "Samsung Galaxy S25", "Staubsauger"}

\* The text a page of the PDF can have ("" for an image-only page).
PageTexts ==
    {"",
     "Energieeffizienzklasse: A+++\nAnschrift des Lieferanten: Apple Distribution International Ltd.",
     "Energieeffizienzklasse der iPhone Modelle",
     "Supplier information\nSamsung Electronics GmbH\nGalaxy",
     "Energieeffizienz\nKlasse B",
     "Anschrift des Lieferanten: 1. Allgemeine Angaben",
     "Anschrift des Lieferanten: LG 1. Allgemeine Angaben",
     "Anschrift des Lieferanten: LG"}

\* The OCR text of the PDF's pages: none, an empty one, or one with both fields.
OcrTexts ==
    {<<>>, <<"">>,
     <<"Energieeffizienzklasse: G\nAnschrift des Lieferanten: Samsung Electronics GmbH">>}

\* The number of text pages of a document after its leading image-only pages.
MaxBodyPages == 1

\* The documents: 0, 5 or 24 leading pages, image-only but for the first,
\* which may have text, then up to MaxBodyPages pages of text, so that a text
\* can be page 1, page 6 or page 25, with or without a text on an earlier page.
Documents ==
    LET bodies == UNION {[1..n -> PageTexts] : n \in 0..MaxBodyPages}
        leading(lead) ==
            {[k \in 1..lead |-> IF k = 1 THEN t ELSE ""] : t \in PageTexts}
    IN UNION {{front \o body : front \in leading(lead), body \in bodies} :
                 lead \in {0, 5, 24}}

\* scrape has a product page open: get_pdf_link gave a link or none, _fetch
\* gives bytes, nothing or fails (None), _text_pages and _ocr_pages give the
\* document's texts.
InitPdf ==
    /\ mode = "pdf"
    /\ dQuery \in PdfQueries
    /\ \/ \E url \in {"", "Not found"} :
             dDoc = [pdf_url |-> url, pdf_bytes |-> None, pages |-> <<>>, ocr |-> <<>>]
       \/ \E bytes \in {None, ""} :
             dDoc = [pdf_url |-> "https://www.otto.de/datasheet.pdf",
                     pdf_bytes |-> bytes, pages |-> <<>>, ocr |-> <<>>]
       \/ \E pages \in Documents, ocr \in OcrTexts :
             dDoc = [pdf_url |-> "https://www.otto.de/datasheet.pdf",
                     pdf_bytes |-> "%PDF", pages |-> pages, ocr |-> ocr]
    /\ dStep = "extract"
    /\ dPage = <<>> /\ dEnergy = "" /\ dSupplier = "" /\ dOcr = FALSE
    /\ dFields = <<>> /\ dProduct = <<>>
    /\ IdleNorm /\ IdleScore /\ IdleParse /\ IdleRun /\ IdlePopup

\* extract_fields up to the end of the page-text scan: the early returns for
\* a missing link, a failed fetch and a failed brand validation, else energy
\* and supplier from the page texts.
ScanPages ==
    /\ mode = "pdf"
    /\ dStep = "extract"
    /\ IF \/ dDoc.pdf_url \in {"", "Not found"}
          \/ dDoc.pdf_bytes \in {None, ""}
          \/ ~BrandValidated(_detect_brand(_normalize(dQuery)), dDoc.pages)
       THEN /\ dFields' = <<"Not found", "Not found">>
            /\ dStep' = "returned"
            /\ UNCHANGED <<dEnergy, dSupplier>>
       ELSE /\ dEnergy' = ScanEnergy(dDoc.pages)
            /\ dSupplier' = ScanSupplier(dDoc.pages)
            /\ dStep' = "scanned"
            /\ UNCHANGED dFields
    /\ UNCHANGED <<mode, normVars, scoreVars, parseVars, runVars, popVars,
                   dQuery, dPage, dDoc, dOcr, dProduct>>

\* extract_fields from the OCR fallback to the return: _ocr_pages is called
\* when a field is unresolved, and only an unresolved field is read from it.
OcrFallback ==
    /\ mode = "pdf"
    /\ dStep = "scanned"
    /\ LET need == NeedsOcr(dEnergy, dSupplier)
           ocr == IF need THEN dDoc.ocr ELSE <<>>
           energy == IF ocr # <<>> /\ dEnergy = "" THEN _energy(ocr) ELSE dEnergy
           supplier == IF ocr # <<>> /\ dSupplier = "" THEN _supplier(ocr) ELSE dSupplier
       IN /\ dOcr' = need
          /\ dFields' = <<OrNotFound(energy), OrNotFound(supplier)>>
    /\ dStep' = "returned"
    /\ UNCHANGED <<mode, normVars, scoreVars, parseVars, runVars, popVars,
                   dQuery, dPage, dDoc, dEnergy, dSupplier, dProduct>>

\* The end of scrape: the page's energy class, energy image link and popup
\* supplier (read before extract_fields, and independent of it) and the
\* returned pair make the ProductData; an exception makes scrape return None,
\* for which Scraper.run records the failed row.
BuildProductData ==
    /\ mode = "pdf"
    /\ dStep = "returned"
    /\ \/ \E energy \in PageEnergy, energy_img \in PageEnergyImage,
             supplier \in PopupSupplier :
             /\ dPage' = [energy |-> energy, energy_img |-> energy_img,
                          supplier |-> supplier]
             /\ dProduct' = ProductData(dQuery, energy, energy_img, supplier,
                                        dDoc.pdf_url, dFields[2])
             /\ dStep' = "built"
       \/ /\ dProduct' = EmptyRow(dQuery)
          /\ dStep' = "failed"
          /\ UNCHANGED dPage
    /\ UNCHANGED <<mode, normVars, scoreVars, parseVars, runVars, popVars,
                   dQuery, dDoc, dEnergy, dSupplier, dOcr, dFields>>

NextPdf == ScanPages \/ OcrFallback \/ BuildProductData

SpecPdf == InitPdf /\ [][NextPdf]_vars


(***************************************************************************)
(* Behaviours that exercise the model-number terms of the scorer: a query  *)
(* with a model number is fixed, a card's text is built fragment by        *)
(* fragment and evaluated after every change.                              *)
(***************************************************************************)
MaxNearFragments == 4

\* A query anchored on its product line and one anchored on its sub-family.
NearQueries == {"iPhone 17", "Samsung Galaxy S25"}

\* Fragments of listing text, as displayed (raw).
NearFragments ==
    {"Smartphone Apple iPhone", "Samsung Galaxy S", "17", "25", "Neu OVP 2025",
     "Smartphone 8 GB"}

NearQueryInfo == [q \in NearQueries |-> from_query(q)]

InitNear ==
    /\ mode = "near"
    /\ sQuery \in NearQueries
    /\ sTitle = ""
    /\ sText = ""
    /\ sResult = _evaluate_card(ScoreCard("", ""), 0, NearQueryInfo[sQuery])
    /\ sPrev = NoCandidate
    /\ sIns = ""
    /\ sFrags = 0
    /\ IdleNorm /\ IdleParse /\ IdleRun /\ IdlePdf /\ IdlePopup

\* The card shows one more fragment; it is evaluated.
NearAppend ==
    /\ mode = "near"
    /\ sFrags < MaxNearFragments
    /\ \E f \in NearFragments :
          LET text == IF sText = "" THEN f ELSE sText \o " " \o f
          IN /\ sText' = text
             /\ sResult' = _evaluate_card(ScoreCard(text, sTitle), 0,
                                          NearQueryInfo[sQuery])
    /\ sFrags' = sFrags + 1
    /\ UNCHANGED <<mode, normVars, sQuery, sTitle, sPrev, sIns, parseVars,
                   runVars, pdfVars, popVars>>

NextNear == NearAppend

SpecNear == InitNear /\ [][NextNear]_vars


(***************************************************************************)
(* The popup text parser (OttoNavigator._parse_supplier_popup)             *)
(***************************************************************************)
ColonMarkers ==
    <<"wirtschaftsakteur", "economic operator", "located in the eu", "in der eu",
      "responsible person", "verantwortliche person">>

FallbackMarkers ==
    <<"located in the eu", "in der eu befindet", "in der eu angesiedelt",
      "in der eu ansässig", "the economic operator responsible",
      "der wirtschaftsakteur", "verantwortliche person",
      "responsible person for the eu", "verantwortlich für dieses produkt">>

StopMarkers ==
    {"you can also find", "sie finden", "sie können", "du findest",
     "important information", "wichtige informationen", "report legal",
     "rechtliche bedenken", "return instruction", "rücksendeh",
     "disposal instruction", "entsorgungsh", "details on product",
     "details zur produkt", "discover another", "entdecke",
     "interesting alternative", "interessante alternative",
     "purchase on account", "kauf auf rechnung", "30-day", "30 tage",
     "https://", "http://", "attention:", "achtung:", "hinweis:",
     "bitte beachten"}

\* No stop marker occurs in any line.
IsStopLineNever(ll) == FALSE

\* _is_stop_line, for a lower-cased line.
_is_stop_line(ll) == \E m \in StopMarkers : Contains(ll, m)

JunkLines ==
    {"×", "X", "Close", "Schließen", "OK", "Details zur Produktsicherheit",
     "Details on product safety", "Verantwortliche Person für die EU",
     "Responsible person for the EU"}

_is_junk_line(line) == Len(line) < 3 \/ Len(line) > 200 \/ line \in JunkLines

\* The lines collected after an anchor: 7 after an anchor line without text
\* of its own, 6 after the text that follows the anchor's colon.
PopupWindow == 7

SeedWindow == 6

\* What the first loop makes of one line: "start" when the line ends with a
\* colon and holds a marker, or its first marker with a colon after it has at
\* most 3 characters after that colon; "seed" when more than 3 characters
\* follow that colon (after); "none" otherwise.
PopupAnchor(line) ==
    Bind(Lower(line), LAMBDA ll :
    Bind({k \in 1..Len(ColonMarkers) : Contains(ll, ColonMarkers[k])}, LAMBDA within :
      IF within # {} /\ Bind(RStrip(line), LAMBDA r : Ch(r, Len(r)) = ":")
      THEN [kind |-> "start", after |-> ""]
      ELSE Bind({k \in within :
                   IndexFrom(line, ":", IndexFrom(ll, ColonMarkers[k], 1)) # 0},
             LAMBDA colons :
               IF colons = {} THEN [kind |-> "none", after |-> ""]
               ELSE Bind(IndexFrom(line, ":",
                                   IndexFrom(ll, ColonMarkers[MinOf(colons)], 1)),
                      LAMBDA colon_pos :
                        Bind(Strip(SubSeq(line, colon_pos + 1, Len(line))),
                          LAMBDA after :
                            IF Len(after) > 3
                            THEN [kind |-> "seed", after |-> after]
                            ELSE [kind |-> "start", after |-> ""])))))

\* The collected text: the seed, then the lines from..to up to the first stop
\* line, the junk lines left out; joined and whitespace-collapsed.
PopupCollect(seed, lines, from, to) ==
    Bind(seed \o LinesUntil(lines, from, to,
                    {j \in 1..Len(lines) : _is_stop_line(Lower(lines[j]))},
                    {j \in 1..Len(lines) : _is_junk_line(lines[j])}),
      LAMBDA collected :
        IF collected = <<>> THEN ""
        ELSE Strip(CollapseWs(JoinLines(collected))))

\* OttoNavigator._parse_supplier_popup
_parse_supplier_popup(text) ==
    IF text = "" THEN ""
    ELSE
    Bind(StrippedLines(text), LAMBDA lines :
    Bind([k \in 1..Len(lines) |-> PopupAnchor(lines[k])], LAMBDA anchors :
    Bind({k \in 1..Len(lines) : anchors[k].kind # "none"}, LAMBDA first :
      IF first # {}
      THEN Bind(MinOf(first), LAMBDA i :
             IF anchors[i].kind = "seed"
             THEN PopupCollect(<<anchors[i].after>>, lines, i + 1,
                               IF i + SeedWindow < Len(lines)
                               THEN i + SeedWindow ELSE Len(lines))
             ELSE PopupCollect(<<>>, lines, i + 1,
                               IF i + PopupWindow < Len(lines)
                               THEN i + PopupWindow ELSE Len(lines)))
      ELSE Bind({k \in 1..Len(lines) :
                   \E m \in 1..Len(FallbackMarkers) :
                      Contains(Lower(lines[k]), FallbackMarkers[m])},
             LAMBDA fallback :
               IF fallback = {} THEN ""
               ELSE Bind(MinOf(fallback), LAMBDA start_idx :
                      PopupCollect(<<>>, lines, start_idx + 1,
                                   IF start_idx + PopupWindow < Len(lines)
                                   THEN start_idx + PopupWindow
                                   ELSE Len(lines)))))))

(***************************************************************************)
(* Behaviours that exercise the popup parser: the panel's text starts with *)
(* one line, an anchor of either kind or not, and grows line by line; it   *)
(* is parsed after every change.                                           *)
(***************************************************************************)
MaxPopupLines == 8

\* The first line: no marker; a marker and a final colon; a marker, a colon
\* and the supplier's name; a marker of the fallback set alone.
PopupHeads ==
    {"Produktsicherheit",
     "Verantwortliche Person für die EU:",
     "Wirtschaftsakteur: Samsung Electronics",
     "Der Wirtschaftsakteur ist"}

\* The k-th line after the first, when it is an address line.
PopupContent ==
    <<"Apple", " Distribution", "International  ", "Hollyhill", "Industrial",
      "\tEstate", "Cork", "Ireland", "Republic">>

PopupStopLine == "Sie finden uns"

PopupJunkLine == "OK"

\* At most this many of the lines after the first are stop or junk lines.
MaxPopupOddLines == 2

\* The number of lines after the first.
PopupFollowing == Len(SplitLines(popText)) - 1

\* The number of stop and junk lines among them.
PopupOddLines ==
    LET lines == SplitLines(popText)
    IN Cardinality({k \in 1..Len(lines) : lines[k] \in {PopupStopLine, PopupJunkLine}})

InitPopup ==
    /\ mode = "popup"
    /\ popText \in PopupHeads
    /\ popResult = _parse_supplier_popup(popText)
    /\ IdleNorm /\ IdleScore /\ IdleParse /\ IdleRun /\ IdlePdf

\* The panel shows one more line: an address line, a stop line or a junk
\* line; the text is parsed.
PopupAppend ==
    /\ mode = "popup"
    /\ PopupFollowing < MaxPopupLines
    /\ \E line \in {PopupContent[PopupFollowing + 1], PopupStopLine, PopupJunkLine} :
          /\ line \in {PopupStopLine, PopupJunkLine} => PopupOddLines < MaxPopupOddLines
          /\ popText' = popText \o "\n" \o line
          /\ popResult' = _parse_supplier_popup(popText \o "\n" \o line)
    /\ UNCHANGED <<mode, normVars, scoreVars, parseVars, runVars, pdfVars>>

NextPopup == PopupAppend

SpecPopup == InitPopup /\ [][NextPopup]_vars


(***************************************************************************)
(* Properties of the matcher and of the batch                              *)
(***************************************************************************)
\* The pooled candidates as a set of positions in the pool.
Pooled == 1..Len(all_scored)

\* A winner has been chosen for the query in progress.
WinnerChosen == best # NoCandidate

\* The pooled candidates that score at least min and have the model in place.
EligibleAt(min) ==
    {i \in Pooled : all_scored[i].score >= min /\ all_scored[i].model_ok}

\* The threshold of the tier the winner was chosen in.
TierMin ==
    IF tier = "strict" THEN StrictMin
    ELSE IF tier = "relaxed" THEN RelaxedMin ELSE BrandOnlyMin

\* C1 as stated: whenever a winner is chosen while the pool contains a
\* candidate with score >= 30, the winner has score >= 30.
TierOrderingAnyStrictScore ==
    (WinnerChosen /\ \E i \in Pooled : all_scored[i].score >= StrictMin)
        => best.score >= StrictMin

\* C1: whenever a winner is chosen while the pool contains a candidate with
\* score >= 30 and model_ok = true, the winner has score >= 30, whatever the
\* round or order in which the candidates were collected.
TierOrdering ==
    (WinnerChosen /\ EligibleAt(StrictMin) # {}) => best.score >= StrictMin

\* A winner chosen from a pool in which a relaxed-only candidate was collected
\* before the strict-eligible one.
TierOrderingWitness ==
    /\ WinnerChosen
    /\ best.score >= StrictMin
    /\ \E i, j \in Pooled :
          /\ i < j
          /\ all_scored[i].score < StrictMin /\ all_scored[i].score >= RelaxedMin
          /\ all_scored[i].model_ok
          /\ all_scored[j].score >= StrictMin /\ all_scored[j].model_ok

\* C2 as stated: a strict match always ends in MATCHED, find_product
\* returning True.
StrictMatchAlwaysMatched == tier = "strict" => (mstate = "MATCHED" /\ found)

\* C2: a collection round at whose end the pool holds a candidate with score
\* >= 30 and model_ok = true picks the highest-scoring such candidate and ends
\* the matcher at once, in MATCHED (find_product returns True) when the click on
\* the candidate succeeds and in FAILED (find_product returns False) when it
\* raises; no collection round runs after that.
StrictMatchTerminates ==
    /\ [][(pc = "find" /\ mstate = "COLLECTING" /\ mstate' # "ABORTED"
            /\ \E i \in 1..Len(all_scored') :
                  all_scored'[i].score >= StrictMin /\ all_scored'[i].model_ok)
          => /\ tier' = "strict"
             /\ best' # NoCandidate
             /\ best'.score >= StrictMin /\ best'.model_ok
             /\ \A i \in 1..Len(all_scored') :
                   (all_scored'[i].score >= StrictMin /\ all_scored'[i].model_ok)
                      => all_scored'[i].score <= best'.score
             /\ click' \in {"ok", "failed"}
             /\ (click' = "ok") <=> (mstate' = "MATCHED" /\ found')
             /\ (click' = "failed") <=> (mstate' = "FAILED" /\ ~found')
             /\ scroll_attempt' = scroll_attempt]_vars
    /\ [][(mstate \in {"MATCHED", "FAILED"})
          => (requests' = requests \/ requests' = 0)]_vars

\* A strict match chosen among two strict-eligible candidates of different
\* scores whose click raised.
StrictMatchTerminatesWitness ==
    /\ tier = "strict" /\ click = "failed" /\ mstate = "FAILED"
    /\ \E i \in EligibleAt(StrictMin) : all_scored[i].score < best.score

\* The matcher has left the rounds without a strict match and has decided.
DecidedAfterRounds ==
    scroll_attempt = MaxRounds /\ mstate \in {"MATCHED", "FAILED"}

\* C3: when the rounds end without a strict match, a pooled candidate with
\* score >= 15 is selected if one exists, otherwise one with score >= 5 if one
\* exists, and the matcher fails only when no pooled candidate has score >= 5.
RelaxedThenBrandOnly ==
    DecidedAfterRounds =>
        /\ (\E i \in Pooled : all_scored[i].score >= RelaxedMin)
              => (WinnerChosen /\ best.score >= RelaxedMin)
        /\ (\E i \in Pooled : all_scored[i].score >= BrandOnlyMin)
              => (WinnerChosen /\ best.score >= BrandOnlyMin)
        /\ (mstate = "FAILED" /\ click = "")
              => ~ \E i \in Pooled : all_scored[i].score >= BrandOnlyMin

\* C4: in each tier the winner has the maximum score among the pooled
\* candidates eligible for the tier, and the lowest position index among the
\* eligible candidates with that score.
WinnerIsBest ==
    WinnerChosen =>
        /\ \E i \in EligibleAt(TierMin) : all_scored[i] = best
        /\ \A i \in EligibleAt(TierMin) :
              /\ all_scored[i].score <= best.score
              /\ all_scored[i].score = best.score => best.idx <= all_scored[i].idx

\* A winner of the relaxed tier that ties on the score with a later card.
WinnerIsBestWitness ==
    /\ WinnerChosen
    /\ tier = "relaxed"
    /\ \E i \in EligibleAt(TierMin) :
          all_scored[i].score = best.score /\ all_scored[i].idx > best.idx

\* C5: whatever the listing provider returns (more, fewer, the same or no
\* candidates), the matcher requests candidates at most 10 times, and, in every
\* behaviour in which the provider does not raise, it terminates in MATCHED or
\* FAILED.
MatcherTerminates ==
    /\ [](requests <= MaxRounds)
    /\ [](mstate # "ABORTED")
          => [](pc = "find" => <>(mstate \in {"MATCHED", "FAILED"}))

\* The matcher has failed by exhausting the rounds, after 10 requests.
MatcherTerminatesWitness ==
    requests = MaxRounds /\ mstate = "FAILED" /\ click = "" /\ all_scored # <<>>

\* C10: for every recorded query the energy class and the supplier text are
\* never the empty string.
RecordedFieldsNeverEmpty ==
    \A i \in 1..Len(results) :
        /\ results[i].energy_efficiency_class # ""
        /\ results[i].supplier_information # ""


\* C11: whatever the per-query outcomes (match, no match, exception in any
\* step), the results hold one row per processed query, in input order, each
\* carrying its query string, and after the batch exactly one row per input
\* query: a failed query is recorded and the next query is still processed.
BatchRowsComplete ==
    mode = "run" =>
        /\ Len(results) = (IF pc = "done" THEN Len(queries) ELSE qi - 1)
        /\ \A i \in 1..Len(results) : results[i].input_ean = queries[i]

\* A finished batch of two queries whose first query failed and whose second
\* query matched.
BatchRowsCompleteWitness ==
    /\ pc = "done"
    /\ Len(queries) = MaxQueries
    /\ Len(results) = MaxQueries
    /\ results[1].product_url = ""
    /\ results[MaxQueries].product_url # ""


\* Whether the model number of the query is a whole word of the card's combined
\* text, for every query and card of the batch.
RunModelWord ==
    [q \in RunQueries |->
        [l \in {c.link : c \in Cards} |->
            LET c == CHOOSE d \in Cards : d.link = l
                model == from_query(q).model_number
            IN model = "" \/ WordSearch(Combined(c.text, c.title), model)]]

PoolOnlyGrows ==
    /\ [][(pc = "find")
          => /\ Len(all_scored') >= Len(all_scored)
             /\ SubSeq(all_scored', 1, Len(all_scored)) = all_scored]_vars
    /\ [](\A i \in Pooled : all_scored[i].score > 0)

\* Two candidates pooled in different rounds, with rounds that added nothing.
PoolOnlyGrowsWitness ==
    /\ mstate = "COLLECTING"
    /\ Len(all_scored) = MaxPool
    /\ scroll_attempt > MaxPool
    /\ all_scored[1].idx = all_scored[MaxPool].idx

\* C20: the tiers are consulted in the order strict, relaxed, brand-only: a
\* candidate that is not strict-eligible is selected only after all 10
\* collection rounds have run, and the brand-only tier is consulted only after
\* the relaxed tier found no eligible candidate.
TiersInOrder ==
    /\ (WinnerChosen /\ ~(best.score >= StrictMin /\ best.model_ok))
          => (scroll_attempt = MaxRounds /\ requests = MaxRounds
              /\ tier \in {"relaxed", "brand_only"})
    /\ (mstate = "RELAXED_CHECK" \/ tier = "relaxed")
          => (scroll_attempt = MaxRounds /\ EligibleAt(StrictMin) = {})
    /\ (mstate = "BRAND_ONLY_CHECK" \/ tier = "brand_only")
          => (scroll_attempt = MaxRounds /\ EligibleAt(RelaxedMin) = {})

\* A winner of the brand-only tier.
TiersInOrderWitness ==
    /\ WinnerChosen
    /\ tier = "brand_only"
    /\ best.score < RelaxedMin
    /\ Len(all_scored) = MaxPool


\* ------------------------------------------------------------------------
\* Properties of the field extraction (SpecPdf)
\* ------------------------------------------------------------------------

NotFoundPair == <<"Not found", "Not found">>

\* extract_fields has returned for a document that was fetched.
ReturnedForDocument ==
    /\ dStep = "returned"
    /\ dDoc.pdf_url \notin {"", "Not found"}
    /\ dDoc.pdf_bytes \notin {None, ""}

\* For a fetched document the extraction was abandoned before the scan
\* exactly when both fields are "Not found" and OCR was not requested (a scan
\* that finds nothing always requests OCR).
Abandoned == dFields = NotFoundPair /\ ~dOcr

\* C12: brand validation abandons the extraction exactly when a brand is
\* supplied, at least one page text is non-empty and no brand token occurs in
\* the lowercased page texts; a document of image-only pages is not abandoned
\* and goes on to the OCR fallback.
BrandValidationNeedsPageText ==
    ReturnedForDocument =>
        LET expected_brand == _detect_brand(_normalize(dQuery))
            full == Lower(JoinLines(dDoc.pages))
            tokens == BrandTokens(expected_brand)
        IN Abandoned <=>
              /\ expected_brand # None
              /\ \E k \in 1..Len(dDoc.pages) : dDoc.pages[k] # ""
              /\ ~\E k \in 1..Len(tokens) : Contains(full, tokens[k])

\* C13: the OCR fallback is requested exactly when a field is unresolved after
\* the page-text scan (never after an early return, never when both fields
\* are resolved: dOcr, false at the start, changes in no other step), and a
\* field the scan resolved keeps its value whatever the OCR text holds.
OcrOnlyForUnresolvedFields ==
    [][/\ dStep = "scanned" =>
            /\ dOcr' <=> (dEnergy = "" \/ dSupplier = "")
            /\ dEnergy # "" => dFields'[1] = dEnergy
            /\ dSupplier # "" => dFields'[2] = dSupplier
       /\ dStep # "scanned" => dOcr' = dOcr]_vars

\* The scan resolved the energy class alone; the OCR text holds both fields,
\* and only the supplier is taken from it.
OcrOnlyForUnresolvedFieldsWitness ==
    /\ dStep = "returned"
    /\ dOcr
    /\ dEnergy = "B"
    /\ dSupplier = ""
    /\ _energy(dDoc.ocr) = "G"
    /\ dFields[1] = "B"
    /\ dFields[2] \notin {"", "Not found"}

\* The document has no page text: the link is missing, the fetch failed or
\* _text_pages gave no page.
NoPages == dDoc.pages = <<>>

\* The OCR gives no text: no page, or empty pages only.
NoOcrText == \A k \in 1..Len(dDoc.ocr) : dDoc.ocr[k] = ""

\* C14: when the text source yields no pages (or the fetch fails) and the OCR
\* yields no text, extract_fields returns ("Not found", "Not found").
NoTextNoOcrGivesNotFound ==
    (dStep \in {"returned", "built", "failed"} /\ NoPages /\ NoOcrText)
        => dFields = NotFoundPair

\* A fetched document without pages whose OCR, which was requested, gave an
\* empty text.
NoTextNoOcrGivesNotFoundWitness ==
    /\ dStep = "returned"
    /\ dDoc.pdf_bytes = "%PDF"
    /\ NoPages
    /\ dDoc.ocr = <<"">>
    /\ dOcr
    /\ dFields = NotFoundPair

\* v matches ^[A-G]\+{0,3}$.
IsEnergyClass(v) ==
    /\ Len(v) \in 1..4
    /\ Ch(v, 1) \in CharSet("ABCDEFG")
    /\ \A i \in 2..Len(v) : Ch(v, i) = "+"

\* C15: every energy class extract_fields returns other than "Not found" is
\* one uppercase letter A-G followed by at most three '+', whatever the page
\* text and whichever strategy produced it; a page with the text
\* "Energieeffizienzklasse: A+++" gives "A+++".
EnergyClassWellFormed ==
    /\ dStep = "returned"
          => (dFields[1] = "Not found" \/ IsEnergyClass(dFields[1]))
    /\ _energy(<<"Energieeffizienzklasse: A+++">>) = "A+++"

\* scrape found no energy image link on the page.
NoEnergyImage == dPage.energy_img \in {"", "Not found"}

NearQuery == NearQueryInfo[sQuery]

NearTokens == Split(Combined(sText, sTitle))

\* The card under evaluation was accepted for a query with a model number.
NearAccepted ==
    mode = "near" /\ sResult # NoCandidate /\ NearQuery.model_number # ""

\* The anchor of the query: its sub-family when it has one, else its product
\* line.
NearAnchor ==
    IF NearQuery.samsung_sub # "" THEN NearQuery.samsung_sub
    ELSE NearQuery.product_line

\* The model number is the token d places after position i.
ModelAtOffset(i, d) ==
    i + d <= Len(NearTokens) /\ NearTokens[i + d] = NearQuery.model_number

\* The score of the card without its model term, and with the model term
\* that the position of the model number calls for.
ScoreWithModelTerm(near) ==
    CardScore(Combined(sText, sTitle), [NearQuery EXCEPT !.model_number = ""])
    + (IF near THEN 15
       ELSE IF WordSearch(Combined(sText, sTitle), NearQuery.model_number) THEN 5
       ELSE -10)

\* The model number is one of the 4 tokens after a token that is the anchor.
ModelWithinFourOfAnchor ==
    \E i \in 1..Len(NearTokens) :
        /\ NearTokens[i] = NearAnchor
        /\ \E d \in 1..4 : ModelAtOffset(i, d)

\* C21 as stated: the model term of an accepted card's score is +15 when the
\* model number is one of the 4 tokens after the product-line anchor or, for a
\* query with a sub-family, the sub-family anchor; else +5 when it occurs as a
\* whole word; else -10.
ModelTermWindowFour ==
    NearAccepted => sResult.score = ScoreWithModelTerm(ModelWithinFourOfAnchor)

\* The model number is one of the 3 tokens after a token that is the
\* sub-family; or, for a query without sub-family, one of the 4 tokens after a
\* token that begins with the product line, or glued to the product line.
ModelWithinWindowOfAnchor ==
    IF NearQuery.samsung_sub # ""
    THEN \E i \in 1..Len(NearTokens) :
            /\ NearTokens[i] = NearQuery.samsung_sub
            /\ \E d \in 1..3 : ModelAtOffset(i, d)
    ELSE /\ NearQuery.product_line # ""
         /\ \E i \in 1..Len(NearTokens) :
               /\ StartsWith(NearTokens[i], NearQuery.product_line)
               /\ \/ \E d \in 1..4 : ModelAtOffset(i, d)
                  \/ NearTokens[i] = NearQuery.product_line \o NearQuery.model_number

\* C21: the model term of an accepted card's score is +15 when the model
\* number is one of the 3 tokens after the sub-family token (query with a
\* sub-family) or one of the 4 tokens after a token beginning with the product
\* line (query without); else +5 when it occurs as a whole word; else -10.
ModelTermByWindow ==
    NearAccepted => sResult.score = ScoreWithModelTerm(ModelWithinWindowOfAnchor)

\* An accepted card of the sub-family query whose model number is the fourth
\* token after the sub-family and not nearer: the term is +5.
ModelTermByWindowWitness ==
    /\ NearAccepted
    /\ NearQuery.samsung_sub # ""
    /\ ModelWithinFourOfAnchor
    /\ ~ModelWithinWindowOfAnchor
    /\ sResult.score = ScoreWithModelTerm(FALSE)
    /\ WordSearch(Combined(sText, sTitle), NearQuery.model_number)

\* The card under evaluation passed the hard filters before the model
\* conflict check and was rejected by that check.
RejectedForConflict ==
    LET combined == Combined(sText, sTitle)
        raw_lower == Lower(sText)
    IN /\ mode = "near"
       /\ sResult = NoCandidate
       /\ NearQuery.model_number # ""
       /\ ~_is_sponsored(raw_lower)
       /\ ~_is_accessory(IF sTitle # "" THEN _normalize(sTitle) ELSE "",
                         _normalize(sText), raw_lower)
       /\ ~_is_wrong_category(combined, raw_lower, NearQuery.brand)
       /\ Contains(combined, NearQuery.product_line)
       /\ _conflicting_model(combined, NearQuery)

\* A 1-2 digit number other than the model number is one of the 4 tokens
\* after a token that is the product line or the sub-family of the query.
OtherNumberAfterAnchor ==
    \E i \in 1..Len(NearTokens) :
        /\ NearTokens[i] # ""
        /\ NearTokens[i] \in {NearQuery.product_line, NearQuery.samsung_sub}
        /\ \E d \in 1..4 :
              /\ i + d <= Len(NearTokens)
              /\ IsNum12(NearTokens[i + d])
              /\ NearTokens[i + d] # NearQuery.model_number

\* C22: a card is rejected for a numeric model conflict only when a 1-2 digit
\* number other than the query's model number is among the tokens right after
\* a token that is the product-line or sub-family anchor; a number after some
\* other word, such as one that begins with the letters of the anchor, does
\* not cause the rejection.
ConflictOnlyAfterAnchor == RejectedForConflict => OtherNumberAfterAnchor

\* C23: after the page-text scan, when the document has at least 6 pages
\* and page 6 alone yields an energy class, that value is the energy, whatever
\* the other pages would yield; otherwise the energy is that of the full scan
\* of all pages in order. The same holds for the supplier with page 25.
TargetPageFirst ==
    dStep = "scanned" =>
        LET pages == dDoc.pages
            page6 == IF Len(pages) >= 6 THEN _energy(<<pages[6]>>) ELSE ""
            page25 == IF Len(pages) >= 25 THEN _supplier(<<pages[25]>>) ELSE ""
        IN /\ page6 # "" => dEnergy = page6
           /\ page6 = "" => dEnergy = _energy(pages)
           /\ page25 # "" => dSupplier = page25
           /\ page25 = "" => dSupplier = _supplier(pages)

\* Page 1 and page 6 yield different energy classes; that of page 6 is taken,
\* the full scan would have given that of page 1.
TargetPageFirstWitness ==
    /\ dStep = "scanned"
    /\ Len(dDoc.pages) = 6
    /\ _energy(<<dDoc.pages[1]>>) = "B"
    /\ _energy(<<dDoc.pages[6]>>) = "A+++"
    /\ _energy(dDoc.pages) = "B"
    /\ dEnergy = "A+++"

\* The texts the supplier was looked for in: the pages and the OCR texts.
SupplierSources ==
    {dDoc.pages[k] : k \in 1..Len(dDoc.pages)} \cup {dDoc.ocr[k] : k \in 1..Len(dDoc.ocr)}

\* extract_fields has returned after a scan of the pages.
ReturnedAfterScan == ReturnedForDocument /\ ~Abandoned

\* C24: the supplier surfaces as "Not found" only when every strategy on
\* every scanned page and on the OCR text has produced no usable value: no
\* text then has a strategy with a valid value that is non-empty once cleaned.
NotFoundOnlyWhenExhausted ==
    (ReturnedAfterScan /\ dFields[2] = "Not found")
        => \A text \in SupplierSources : SupplierOfText(text) \in {None, ""}

\* The boilerplate markers of the validity filter.
BoilerplateMarkers ==
    {"steuern", "weitere angaben", "self-repair", "spare-parts", "search-detail"}

\* v has at least 5 characters, at least 5 alphabetic characters and none of
\* the boilerplate markers.
SatisfiesValidityFilter(v) ==
    /\ Len(v) >= 5
    /\ Cardinality({i \in 1..Len(v) : Ch(v, i) \in NormLetterSet \cup UpperSet}) >= 5
    /\ \A g \in BoilerplateMarkers : ~Contains(Lower(v), g)

\* extract_fields has returned a supplier.
SupplierReturned == dStep = "returned" /\ dFields[2] # "Not found"

PanelLines == SplitLines(popText)

\* A marker phrase of either set occurs in the line.
HasMarkerPhrase(line) ==
    \/ \E m \in 1..Len(ColonMarkers) : Contains(Lower(line), ColonMarkers[m])
    \/ \E m \in 1..Len(FallbackMarkers) : Contains(Lower(line), FallbackMarkers[m])

\* The text of the first line after its colon (case b), "" when the line has
\* no colon or nothing after it (case a).
SeedOfAnchor ==
    LET colon == IndexFrom(PanelLines[1], ":", 1)
    IN IF colon = 0 THEN ""
       ELSE Strip(SubSeq(PanelLines[1], colon + 1, Len(PanelLines[1])))

\* The k-th line after the anchor is a stop-marker line.
StopLineAt(k) == \E m \in StopMarkers : Contains(Lower(PanelLines[k + 1]), m)

\* The k-th line after the anchor may contribute to the result: it is within
\* the next 7 (case a) or 6 (case b) lines, no line from the anchor to it is a
\* stop-marker line, and it is not a junk line.
MayContribute(k) ==
    /\ k <= (IF SeedOfAnchor = "" THEN 7 ELSE 6)
    /\ \A j \in 1..k : ~StopLineAt(j)
    /\ PanelLines[k + 1] # PopupJunkLine

\* C26: the parser's result is empty when no line holds a marker phrase;
\* otherwise every word of it comes from the text after the anchor line's
\* colon or from one of the next 7 (case a) or 6 (case b) lines after the
\* anchor that precedes the first stop-marker line and is not a junk line.
PopupResultBounded ==
    mode = "popup" =>
        /\ (\A k \in 1..Len(PanelLines) : ~HasMarkerPhrase(PanelLines[k]))
              => popResult = ""
        /\ \A word \in SeqToSet(Split(popResult)) :
              \/ word \in SeqToSet(Split(SeedOfAnchor))
              \/ \E k \in 1..(Len(PanelLines) - 1) :
                    /\ MayContribute(k)
                    /\ word = Strip(PanelLines[k + 1])

\* An anchor line ending with its colon, followed by 8 address lines: the
\* result holds the first 7 and not the 8th.
PopupResultBoundedWitness ==
    /\ mode = "popup"
    /\ Len(PanelLines) = 9
    /\ SeedOfAnchor = ""
    /\ \A k \in 1..8 : PanelLines[k + 1] = PopupContent[k]
    /\ popResult = "Apple Distribution International Hollyhill Industrial Estate Cork"

\* ------------------------------------------------------------------------
\* Properties of the matcher's failure handling (Spec)
\* ------------------------------------------------------------------------

\* A collection round is about to run for the current query.
RoundPending == mode = "run" /\ pc = "find" /\ mstate = "COLLECTING"

\* C27: a listing call that raises or returns nothing counts as zero
\* candidates for its round: a round either selects a strict candidate or
\* leaves the matcher going on, with the pool at least what it was, to the
\* next round or to the relaxed tier; it never ends the match otherwise.
ListingFailureIsEmptyRound ==
    [][RoundPending =>
          \/ tier' = "strict"
          \/ /\ mstate' \in {"COLLECTING", "RELAXED_CHECK"}
             /\ Len(all_scored') >= Len(all_scored)
             /\ SubSeq(all_scored', 1, Len(all_scored)) = all_scored
             /\ results' = results]_vars

\* ------------------------------------------------------------------------
\* Properties of the parsed query (SpecQuery)
\* ------------------------------------------------------------------------

\* A string of 1 to 2 digits.
IsOneOrTwoDigits(x) == Len(x) \in 1..2 /\ \A i \in 1..Len(x) : IsDigit(Ch(x, i))

\* C28: for every query, model_number is empty or a string of 1 to 2 digits,
\* and product_line is non-empty only if the brand is set and the line is one
\* of that brand's catalog product lines.
QueryInfoWellFormed ==
    (mode = "query" /\ pInfo # Unparsed) =>
        /\ pInfo.model_number = "" \/ IsOneOrTwoDigits(pInfo.model_number)
        /\ pInfo.product_line # "" =>
              /\ pInfo.brand # None
              /\ InSeq(pInfo.product_line, ProductLines[pInfo.brand])

\* ------------------------------------------------------------------------
\* Properties of the recorded supplier (SpecPdf)
\* ------------------------------------------------------------------------

\* C29: the recorded supplier comes only from the product-safety popup: it is
\* the popup's supplier when the popup yields one, and "Not found" when the
\* popup yields none, whatever extract_fields returned for the PDF.
SupplierOnlyFromPopup ==
    (mode = "pdf" /\ dStep = "built") =>
        dProduct.supplier_information = OrNotFound(dPage.supplier)

\* ------------------------------------------------------------------------
\* Properties of a failed click (Spec)
\* ------------------------------------------------------------------------

\* The click on the selected candidate has just failed.
ClickJustFailed == click # "failed" /\ click' = "failed"

\* C30: when the click on the candidate selected in a tier fails, the matcher
\* reports failure for the query at once: the query's failed row is recorded in
\* the same step, and from then on no round, tier check or field extraction runs
\* for that query, so no other candidate, no further round and no lower tier is
\* tried.
ClickFailureEndsMatch ==
    /\ [](click = "failed" =>
            /\ mstate = "FAILED" /\ found = FALSE
            /\ pc \in {"search", "done"}
            /\ Len(results) = qi - 1
            /\ results[qi - 1] = EmptyRow(queries[qi - 1]))
    /\ [][ClickJustFailed =>
            /\ best' # NoCandidate
            /\ results' = Append(results, EmptyRow(queries[qi]))
            /\ scroll_attempt' = scroll_attempt]_vars

\* The click on the strict winner failed while the pool held a second
\* candidate, eligible in the relaxed tier, that was not tried.
ClickFailureEndsMatchWitness ==
    /\ mode = "run"
    /\ click = "failed" /\ tier = "strict" /\ mstate = "FAILED"
    /\ Len(SelectSeq(all_scored, IsRelaxed)) >= 2
    /\ scroll_attempt < MaxRounds - 1

====
